---- MODULE Spec2Model ----
(***************************************************************************)
(* Relationship validation, repair and impact propagation of the ArchiMate *)
(* ingester (src/8.3.py, src/config.py, src/Viewer.py).                     *)
(*                                                                         *)
(* An xsi:type attribute value such as "archimate:Goal" is the record      *)
(* [ns |-> "archimate", name |-> "Goal"]; the absent attribute is          *)
(* [ns |-> "", name |-> ""].  The XML document is a sequence of top-level  *)
(* folders; each folder holds its direct <element> children in document    *)
(* order (elems) and the <element> nodes of its sub-folders (sub).         *)
(***************************************************************************)
EXTENDS Integers, Sequences, FiniteSets, TLC

\* ---- src/config.py ----

FOLDER_MAP ==
  [ BusinessActor |-> "Business",
    BusinessRole |-> "Business",
    BusinessCollaboration |-> "Business",
    BusinessEvent |-> "Business",
    BusinessProcess |-> "Business",
    BusinessFunction |-> "Business",
    BusinessInteraction |-> "Business",
    BusinessService |-> "Business",
    BusinessObject |-> "Business",
    BusinessInterface |-> "Business",
    BusinessContract |-> "Business",
    BusinessRepresentation |-> "Business",
    ApplicationComponent |-> "Application",
    ApplicationCollaboration |-> "Application",
    ApplicationInterface |-> "Application",
    ApplicationService |-> "Application",
    ApplicationFunction |-> "Application",
    ApplicationProcess |-> "Application",
    ApplicationInteraction |-> "Application",
    ApplicationEvent |-> "Application",
    DataObject |-> "Application",
    Node |-> "Technology & Physical",
    Device |-> "Technology & Physical",
    SystemSoftware |-> "Technology & Physical",
    TechnologyInterface |-> "Technology & Physical",
    TechnologyService |-> "Technology & Physical",
    Artifact |-> "Technology & Physical",
    Stakeholder |-> "Motivation",
    Driver |-> "Motivation",
    Goal |-> "Motivation",
    Outcome |-> "Motivation",
    Assessment |-> "Motivation",
    Principle |-> "Motivation",
    Requirement |-> "Motivation",
    Constraint |-> "Motivation",
    Capability |-> "Strategy",
    CourseOfAction |-> "Strategy",
    ValueStream |-> "Strategy",
    Resource |-> "Strategy",
    WorkPackage |-> "Implementation & Migration",
    Deliverable |-> "Implementation & Migration",
    Plateau |-> "Implementation & Migration" ]

RELATIONSHIP_TYPES ==
  { "AssignmentRelationship", "RealizationRelationship", "AssociationRelationship",
    "CompositionRelationship", "AggregationRelationship", "ServingRelationship",
    "AccessRelationship", "FlowRelationship", "TriggeringRelationship",
    "SpecializationRelationship", "UsedByRelationship", "InfluenceRelationship" }

RELATIONSHIP_RULES ==
  [
     Capability |->
        [RealizationRelationship |-> {"Goal", "Requirement", "Outcome", "CourseOfAction"},
         ServingRelationship |-> {"BusinessActor", "BusinessRole"},
         CompositionRelationship |-> {"Capability"},
         AggregationRelationship |-> {"Capability"},
         InfluenceRelationship |-> {"Goal", "Principle", "Requirement"},
         AssociationRelationship |-> {"*"}],
     CourseOfAction |->
        [RealizationRelationship |-> {"Capability", "Goal"},
         ServingRelationship |-> {"BusinessActor", "BusinessRole"},
         CompositionRelationship |-> {"CourseOfAction"},
         AggregationRelationship |-> {"CourseOfAction"},
         AssociationRelationship |-> {"*"}],
     ValueStream |->
        [CompositionRelationship |-> {"ValueStream"},
         AggregationRelationship |-> {"ValueStream"},
         RealizationRelationship |-> {"BusinessProcess", "BusinessFunction"},
         AssociationRelationship |-> {"*"}],
     Resource |->
        [RealizationRelationship |-> {"BusinessObject", "DataObject", "Artifact"},
         CompositionRelationship |-> {"Resource"},
         AggregationRelationship |-> {"Resource"},
         AssociationRelationship |-> {"*"}],
     Stakeholder |->
        [InfluenceRelationship |-> {"Goal", "Driver", "Requirement"},
         AssignmentRelationship |-> {"BusinessActor", "BusinessRole"},
         AssociationRelationship |-> {"*"}],
     Driver |->
        [InfluenceRelationship |-> {"Goal", "Assessment", "Requirement"},
         AssociationRelationship |-> {"*"}],
     Assessment |->
        [InfluenceRelationship |-> {"Driver", "Goal"},
         AssociationRelationship |-> {"*"}],
     Goal |->
        [RealizationRelationship |-> {"Outcome", "Capability"},
         InfluenceRelationship |-> {"Goal", "Principle", "Requirement"},
         CompositionRelationship |-> {"Goal"},
         AggregationRelationship |-> {"Goal"},
         AssociationRelationship |-> {"*"},
         SpecializationRelationship |-> {"Goal"}],
     Outcome |->
        [RealizationRelationship |-> {"Capability"},
         InfluenceRelationship |-> {"Goal"},
         AssociationRelationship |-> {"*"}],
     Principle |->
        [InfluenceRelationship |-> {"Goal", "Requirement", "Constraint"},
         AssociationRelationship |-> {"*"}],
     Requirement |->
        [RealizationRelationship |-> {"ApplicationService", "TechnologyService", "BusinessService", "Capability", "CourseOfAction"},
         InfluenceRelationship |-> {"Goal", "Principle", "Requirement"},
         CompositionRelationship |-> {"Requirement"},
         AggregationRelationship |-> {"Requirement"},
         AssociationRelationship |-> {"*"},
         SpecializationRelationship |-> {"Requirement"}],
     Constraint |->
        [InfluenceRelationship |-> {"Goal", "Requirement", "Principle"},
         AssociationRelationship |-> {"*"}],
     BusinessActor |->
        [ServingRelationship |-> {"BusinessActor", "BusinessRole", "BusinessProcess", "BusinessFunction"},
         UsedByRelationship |-> {"BusinessProcess", "BusinessFunction"},
         CompositionRelationship |-> {"BusinessActor", "BusinessRole"},
         AggregationRelationship |-> {"BusinessActor", "BusinessRole"},
         AssignmentRelationship |-> {"BusinessRole"},
         AssociationRelationship |-> {"*"},
         SpecializationRelationship |-> {"BusinessActor"}],
     BusinessRole |->
        [ServingRelationship |-> {"BusinessActor", "BusinessRole", "BusinessProcess", "BusinessFunction"},
         UsedByRelationship |-> {"BusinessProcess", "BusinessFunction"},
         CompositionRelationship |-> {"BusinessRole"},
         AggregationRelationship |-> {"BusinessRole"},
         AssignmentRelationship |-> {"BusinessActor"},
         AssociationRelationship |-> {"*"},
         SpecializationRelationship |-> {"BusinessRole"}],
     BusinessCollaboration |->
        [ServingRelationship |-> {"BusinessProcess", "BusinessFunction"},
         CompositionRelationship |-> {"BusinessActor", "BusinessRole"},
         AggregationRelationship |-> {"BusinessActor", "BusinessRole"},
         AssociationRelationship |-> {"*"}],
     BusinessInterface |->
        [ServingRelationship |-> {"BusinessActor", "BusinessRole", "BusinessProcess"},
         AssignmentRelationship |-> {"BusinessService"},
         CompositionRelationship |-> {"BusinessActor", "BusinessRole"},
         AssociationRelationship |-> {"*"}],
     BusinessProcess |->
        [UsedByRelationship |-> {"BusinessActor", "BusinessRole"},
         ServingRelationship |-> {"BusinessActor", "BusinessRole"},
         AccessRelationship |-> {"BusinessObject"},
         FlowRelationship |-> {"BusinessProcess", "BusinessFunction"},
         TriggeringRelationship |-> {"BusinessProcess", "BusinessFunction", "BusinessEvent"},
         CompositionRelationship |-> {"BusinessProcess", "BusinessFunction"},
         AggregationRelationship |-> {"BusinessProcess", "BusinessFunction"},
         AssociationRelationship |-> {"*"},
         SpecializationRelationship |-> {"BusinessProcess"}],
     BusinessFunction |->
        [UsedByRelationship |-> {"BusinessActor", "BusinessRole"},
         ServingRelationship |-> {"BusinessActor", "BusinessRole"},
         AccessRelationship |-> {"BusinessObject"},
         FlowRelationship |-> {"BusinessProcess", "BusinessFunction"},
         TriggeringRelationship |-> {"BusinessProcess", "BusinessFunction", "BusinessEvent"},
         CompositionRelationship |-> {"BusinessFunction"},
         AggregationRelationship |-> {"BusinessFunction"},
         AssociationRelationship |-> {"*"},
         SpecializationRelationship |-> {"BusinessFunction"}],
     BusinessInteraction |->
        [FlowRelationship |-> {"BusinessProcess", "BusinessFunction", "BusinessInteraction"},
         TriggeringRelationship |-> {"BusinessProcess", "BusinessFunction", "BusinessEvent"},
         AssociationRelationship |-> {"*"}],
     BusinessEvent |->
        [TriggeringRelationship |-> {"BusinessProcess", "BusinessFunction"},
         AssociationRelationship |-> {"*"}],
     BusinessService |->
        [ServingRelationship |-> {"BusinessActor", "BusinessRole", "BusinessProcess"},
         RealizationRelationship |-> {"ApplicationService", "BusinessProcess", "BusinessFunction"},
         AccessRelationship |-> {"BusinessObject"},
         CompositionRelationship |-> {"BusinessService"},
         AggregationRelationship |-> {"BusinessService"},
         AssociationRelationship |-> {"*"},
         SpecializationRelationship |-> {"BusinessService"}],
     BusinessObject |->
        [AccessRelationship |-> {"BusinessProcess", "BusinessFunction", "BusinessService"},
         RealizationRelationship |-> {"DataObject"},
         CompositionRelationship |-> {"BusinessObject"},
         AggregationRelationship |-> {"BusinessObject"},
         AssociationRelationship |-> {"*"}],
     BusinessContract |->
        [AccessRelationship |-> {"BusinessProcess", "BusinessFunction"},
         AssociationRelationship |-> {"*"}],
     BusinessRepresentation |->
        [AccessRelationship |-> {"BusinessObject"},
         AssociationRelationship |-> {"*"}],
     ApplicationComponent |->
        [RealizationRelationship |-> {"ApplicationService", "ApplicationFunction"},
         UsedByRelationship |-> {"ApplicationComponent"},
         ServingRelationship |-> {"ApplicationComponent"},
         AccessRelationship |-> {"DataObject"},
         FlowRelationship |-> {"ApplicationComponent"},
         CompositionRelationship |-> {"ApplicationComponent", "ApplicationInterface", "ApplicationFunction"},
         AggregationRelationship |-> {"ApplicationComponent", "ApplicationInterface", "ApplicationFunction"},
         AssociationRelationship |-> {"*"},
         SpecializationRelationship |-> {"ApplicationComponent"}],
     ApplicationCollaboration |->
        [CompositionRelationship |-> {"ApplicationComponent"},
         AggregationRelationship |-> {"ApplicationComponent"},
         AssociationRelationship |-> {"*"}],
     ApplicationInterface |->
        [ServingRelationship |-> {"BusinessActor", "BusinessRole", "BusinessProcess", "ApplicationComponent"},
         AssignmentRelationship |-> {"ApplicationService"},
         CompositionRelationship |-> {"ApplicationComponent"},
         AssociationRelationship |-> {"*"},
         SpecializationRelationship |-> {"ApplicationInterface"}],
     ApplicationService |->
        [ServingRelationship |-> {"BusinessProcess", "BusinessFunction", "BusinessService", "ApplicationComponent"},
         RealizationRelationship |-> {"ApplicationComponent", "ApplicationFunction"},
         AccessRelationship |-> {"DataObject"},
         CompositionRelationship |-> {"ApplicationService"},
         AggregationRelationship |-> {"ApplicationService"},
         AssociationRelationship |-> {"*"},
         SpecializationRelationship |-> {"ApplicationService"}],
     ApplicationFunction |->
        [UsedByRelationship |-> {"ApplicationComponent"},
         AccessRelationship |-> {"DataObject"},
         FlowRelationship |-> {"ApplicationFunction"},
         TriggeringRelationship |-> {"ApplicationFunction", "ApplicationEvent"},
         CompositionRelationship |-> {"ApplicationFunction"},
         AggregationRelationship |-> {"ApplicationFunction"},
         AssociationRelationship |-> {"*"},
         SpecializationRelationship |-> {"ApplicationFunction"}],
     ApplicationProcess |->
        [AccessRelationship |-> {"DataObject"},
         FlowRelationship |-> {"ApplicationProcess"},
         TriggeringRelationship |-> {"ApplicationProcess", "ApplicationEvent"},
         CompositionRelationship |-> {"ApplicationProcess"},
         AggregationRelationship |-> {"ApplicationProcess"},
         AssociationRelationship |-> {"*"}],
     ApplicationInteraction |->
        [FlowRelationship |-> {"ApplicationProcess", "ApplicationFunction", "ApplicationInteraction"},
         TriggeringRelationship |-> {"ApplicationProcess", "ApplicationFunction", "ApplicationEvent"},
         AssociationRelationship |-> {"*"}],
     ApplicationEvent |->
        [TriggeringRelationship |-> {"ApplicationProcess", "ApplicationFunction"},
         AssociationRelationship |-> {"*"}],
     DataObject |->
        [AccessRelationship |-> {"ApplicationComponent", "ApplicationFunction", "ApplicationProcess", "ApplicationService"},
         RealizationRelationship |-> {"Artifact"},
         CompositionRelationship |-> {"DataObject"},
         AggregationRelationship |-> {"DataObject"},
         AssociationRelationship |-> {"*"}],
     Node |->
        [RealizationRelationship |-> {"TechnologyService"},
         AssignmentRelationship |-> {"SystemSoftware", "Artifact", "Device"},
         CompositionRelationship |-> {"Node", "Device", "SystemSoftware"},
         AggregationRelationship |-> {"Node", "Device", "SystemSoftware"},
         AssociationRelationship |-> {"*"}],
     Device |->
        [RealizationRelationship |-> {"TechnologyService"},
         AssignmentRelationship |-> {"SystemSoftware", "Artifact"},
         CompositionRelationship |-> {"Device"},
         AggregationRelationship |-> {"Device"},
         AssociationRelationship |-> {"*"}],
     SystemSoftware |->
        [RealizationRelationship |-> {"TechnologyService"},
         AssignmentRelationship |-> {"Node", "Device"},
         CompositionRelationship |-> {"SystemSoftware"},
         AggregationRelationship |-> {"SystemSoftware"},
         AssociationRelationship |-> {"*"}],
     TechnologyInterface |->
        [ServingRelationship |-> {"ApplicationComponent", "Node", "Device"},
         AssignmentRelationship |-> {"TechnologyService"},
         CompositionRelationship |-> {"Node", "Device"},
         AssociationRelationship |-> {"*"}],
     TechnologyService |->
        [ServingRelationship |-> {"ApplicationComponent", "ApplicationService", "Node", "Device"},
         RealizationRelationship |-> {"Node", "Device", "SystemSoftware"},
         CompositionRelationship |-> {"TechnologyService"},
         AggregationRelationship |-> {"TechnologyService"},
         AssociationRelationship |-> {"*"},
         SpecializationRelationship |-> {"TechnologyService"}],
     Artifact |->
        [AssignmentRelationship |-> {"Node", "Device"},
         RealizationRelationship |-> {"DataObject"},
         AssociationRelationship |-> {"*"}],
     WorkPackage |->
        [RealizationRelationship |-> {"Deliverable"},
         CompositionRelationship |-> {"WorkPackage"},
         AggregationRelationship |-> {"WorkPackage"},
         AssociationRelationship |-> {"*"}],
     Deliverable |->
        [RealizationRelationship |-> {"Artifact", "BusinessObject", "DataObject"},
         CompositionRelationship |-> {"Deliverable"},
         AggregationRelationship |-> {"Deliverable"},
         AssociationRelationship |-> {"*"}],
     Plateau |->
        [CompositionRelationship |-> {"Plateau"},
         AggregationRelationship |-> {"Plateau"},
         AssociationRelationship |-> {"*"}]
  ] @@
  ("*" :>
        [AssociationRelationship |-> {"*"},
         SpecializationRelationship |-> {"*"}])

\* ---- representation of attribute values ----

\* Python None: a missing attribute, or a lookup that found nothing.
NoneId == "None"

\* f"archimate:{n}"
Archi(n) == [ns |-> "archimate", name |-> n]

\* element.get(f"{{{XSI}}}type", "") of an element without xsi:type
NoType == [ns |-> "", name |-> ""]

\* t.split(":")[-1]; a string without ":" is its own last part
Short(t) == t.name

\* el.get(f"{{{XSI}}}type", "").endswith("Relationship"); the names of the
\* model that end in "Relationship" are those of RELATIONSHIP_TYPES
EndsWithRelationship(el) == Short(el.type) \in RELATIONSHIP_TYPES

NoneEl == [id |-> NoneId, type |-> NoType, source |-> NoneId, target |-> NoneId]

Range(s) == {s[i] : i \in DOMAIN s}

\* folder_name.lower() for the folder names of FOLDER_MAP
Lower(n) ==
  CASE n = "Business" -> "business"
    [] n = "Application" -> "application"
    [] n = "Technology & Physical" -> "technology & physical"
    [] n = "Motivation" -> "motivation"
    [] n = "Strategy" -> "strategy"
    [] n = "Implementation & Migration" -> "implementation & migration"
    [] OTHER -> "other"

\* ---- src/8.3.py: lookups over the XML tree ----

\* self.model.findall(".//element")
AllElements(m) == UNION {Range(m[i].elems) \cup Range(m[i].sub) : i \in DOMAIN m}

\* {element.get("id") for element in self.model.findall(".//element")}
ValidIds(m) == {e.id : e \in AllElements(m)}

find_element_by_id(m, el_id) ==
  IF \E e \in AllElements(m) : e.id = el_id
    THEN CHOOSE e \in AllElements(m) : e.id = el_id
    ELSE NoneEl

RECURSIVE RelsFrom(_, _)
RelsFrom(m, i) ==
  IF i > Len(m) THEN <<>>
  ELSE SelectSeq(m[i].elems, EndsWithRelationship) \o RelsFrom(m, i + 1)

find_all_relationships(m) == RelsFrom(m, 1)

\* the first index of a set of folder indices, 0 (None) when it is empty
First(S) == IF S = {} THEN 0 ELSE CHOOSE i \in S : \A j \in S : i <= j

\* for folder in self.model.findall("folder"): if folder.get("type") == t
FirstFolderOfType(m, t) == First({i \in DOMAIN m : m[i].type = t})

\* for folder in self.model.findall("folder"): if folder.get("name") == n
FirstFolderNamed(m, n) == First({i \in DOMAIN m : m[i].name = n})

HasChild(f, el_id) == \E k \in DOMAIN f.elems : f.elems[k].id = el_id

\* folder.remove(el) on the folder at index i
RemoveFrom(m, i, el_id) ==
  [m EXCEPT ![i].elems = SelectSeq(@, LAMBDA e : e.id # el_id)]

_find_and_remove_element(m, el_id) ==
  LET i == First({k \in DOMAIN m : HasChild(m[k], el_id)})
  IN IF i = 0 THEN m ELSE RemoveFrom(m, i, el_id)

\* rel.set(...) on a relationship that is a direct child of a top-level folder
SetRel(m, new) ==
  [i \in DOMAIN m |->
     [m[i] EXCEPT !.elems = [k \in DOMAIN @ |-> IF @[k].id = new.id THEN new ELSE @[k]]]]

create_folder(m, name, folder_type) ==
  Append(m, [type |-> folder_type, name |-> name, elems |-> <<>>, sub |-> <<>>])

\* the model after get_or_create_relations_folder, and the folder it returns
RelationsFolderIn(m) ==
  IF FirstFolderOfType(m, "relations") = 0
    THEN create_folder(m, "Relations", "relations") ELSE m

get_or_create_relations_folder(m) == FirstFolderOfType(RelationsFolderIn(m), "relations")

\* the model after get_folder_for_type(element_type), and the folder it returns
\* (0 is None)
FolderNameFor(element_type) ==
  IF element_type \in DOMAIN FOLDER_MAP THEN FOLDER_MAP[element_type] ELSE "Other"

FolderForTypeIn(m, element_type) ==
  IF element_type \in RELATIONSHIP_TYPES THEN m
  ELSE IF FirstFolderNamed(m, FolderNameFor(element_type)) = 0
    THEN create_folder(m, FolderNameFor(element_type), Lower(FolderNameFor(element_type)))
    ELSE m

get_folder_for_type(m, element_type) ==
  IF element_type \in RELATIONSHIP_TYPES THEN 0
  ELSE FirstFolderNamed(FolderForTypeIn(m, element_type), FolderNameFor(element_type))

\* ---- src/8.3.py: compatibility rules ----

\* is_relationship_allowed with the "*" entry added to the entry of the source type
is_relationship_allowed_plus_default(source_type, target_type, relationship_type) ==
  LET s == Short(source_type)
      t == Short(target_type)
      r == Short(relationship_type)
      own == IF s \in DOMAIN RELATIONSHIP_RULES
               THEN RELATIONSHIP_RULES[s] ELSE RELATIONSHIP_RULES["*"]
      default == RELATIONSHIP_RULES["*"]
  IN \/ r \in DOMAIN own /\ ("*" \in own[r] \/ t \in own[r])
     \/ r \in DOMAIN default /\ ("*" \in default[r] \/ t \in default[r])

is_relationship_allowed(source_type, target_type, relationship_type) ==
  LET s == Short(source_type)
      t == Short(target_type)
      r == Short(relationship_type)
      rules == IF s \in DOMAIN RELATIONSHIP_RULES
                 THEN RELATIONSHIP_RULES[s] ELSE RELATIONSHIP_RULES["*"]
  IN IF r \notin DOMAIN rules THEN FALSE
     ELSE IF "*" \in rules[r] THEN TRUE
     ELSE t \in rules[r]

RELATIONSHIP_FIX_PRIORITY ==
  << "AssociationRelationship", "InfluenceRelationship", "ServingRelationship",
     "UsedByRelationship", "AccessRelationship", "FlowRelationship",
     "TriggeringRelationship", "RealizationRelationship", "AssignmentRelationship",
     "SpecializationRelationship", "CompositionRelationship", "AggregationRelationship" >>

\* _find_alternative_relationship without the pass over the "*" entry
_find_alternative_relationship_without_default(source_type, target_type) ==
  LET s == Short(source_type)
      t == Short(target_type)
      source_rules == IF s \in DOMAIN RELATIONSHIP_RULES
                        THEN RELATIONSHIP_RULES[s] ELSE << >>
  IN {r \in DOMAIN source_rules : "*" \in source_rules[r] \/ t \in source_rules[r]}

\* the set of the entries of the list valid_rels
_find_alternative_relationship(source_type, target_type) ==
  LET s == Short(source_type)
      t == Short(target_type)
      source_rules == IF s \in DOMAIN RELATIONSHIP_RULES
                        THEN RELATIONSHIP_RULES[s] ELSE << >>
      default_rules == RELATIONSHIP_RULES["*"]
  IN {r \in DOMAIN source_rules : "*" \in source_rules[r] \/ t \in source_rules[r]}
     \cup {r \in DOMAIN default_rules : "*" \in default_rules[r] \/ t \in default_rules[r]}

\* the scan of RELATIONSHIP_FIX_PRIORITY taking the last hit instead of the first
FirstPriority_last(valid_rels) ==
  IF \E i \in DOMAIN RELATIONSHIP_FIX_PRIORITY : RELATIONSHIP_FIX_PRIORITY[i] \in valid_rels
    THEN CHOOSE i \in DOMAIN RELATIONSHIP_FIX_PRIORITY :
           /\ RELATIONSHIP_FIX_PRIORITY[i] \in valid_rels
           /\ \A j \in DOMAIN RELATIONSHIP_FIX_PRIORITY :
                j > i => RELATIONSHIP_FIX_PRIORITY[j] \notin valid_rels
    ELSE 0

\* for best_rel in RELATIONSHIP_FIX_PRIORITY: if best_rel in valid_rels: ...
\* the index of the first hit, 0 when the loop ends without one
FirstPriority(valid_rels) ==
  IF \E i \in DOMAIN RELATIONSHIP_FIX_PRIORITY : RELATIONSHIP_FIX_PRIORITY[i] \in valid_rels
    THEN CHOOSE i \in DOMAIN RELATIONSHIP_FIX_PRIORITY :
           /\ RELATIONSHIP_FIX_PRIORITY[i] \in valid_rels
           /\ \A j \in 1..(i - 1) : RELATIONSHIP_FIX_PRIORITY[j] \notin valid_rels
    ELSE 0

\* _attempt_to_fix_relationship with Attempt 2 tried before Attempt 1
_attempt_to_fix_relationship_retype_first(m, rel) ==
  LET source_el == find_element_by_id(m, rel.source)
      target_el == find_element_by_id(m, rel.target)
      same == FirstPriority(_find_alternative_relationship(source_el.type, target_el.type))
  IN IF source_el = NoneEl \/ target_el = NoneEl
       THEN [action |-> "none", rel |-> rel]
     ELSE IF same # 0
       THEN [action |-> "retyped",
             rel |-> [rel EXCEPT !.type = Archi(RELATIONSHIP_FIX_PRIORITY[same])]]
     ELSE IF is_relationship_allowed(target_el.type, source_el.type, rel.type)
       THEN [action |-> "reversed",
             rel |-> [rel EXCEPT !.source = target_el.id, !.target = source_el.id]]
     ELSE [action |-> "none", rel |-> rel]

\* The result of _attempt_to_fix_relationship: action "none" is the return
\* value None, otherwise rel is the relationship after the rel.set calls.
_attempt_to_fix_relationship(m, rel) ==
  LET source_el == find_element_by_id(m, rel.source)
      target_el == find_element_by_id(m, rel.target)
      source_type == source_el.type
      target_type == target_el.type
      same == FirstPriority(_find_alternative_relationship(source_type, target_type))
      rev == FirstPriority(_find_alternative_relationship(target_type, source_type))
  IN IF source_el = NoneEl \/ target_el = NoneEl
       THEN [action |-> "none", rel |-> rel]
     ELSE IF is_relationship_allowed(target_type, source_type, rel.type)
       THEN [action |-> "reversed",
             rel |-> [rel EXCEPT !.source = target_el.id, !.target = source_el.id]]
     ELSE IF same # 0
       THEN [action |-> "retyped",
             rel |-> [rel EXCEPT !.type = Archi(RELATIONSHIP_FIX_PRIORITY[same])]]
     ELSE IF rev # 0
       THEN [action |-> "reversed_retyped",
             rel |-> [rel EXCEPT !.source = target_el.id, !.target = source_el.id,
                                 !.type = Archi(RELATIONSHIP_FIX_PRIORITY[rev])]]
     ELSE [action |-> "none", rel |-> rel]

\* ---- src/8.3.py: validate_and_clean_relationships ----

\* The local state of one invocation: the tree, all_relationships as fetched
\* by Step 1 and rels_to_process (ids of the relationship nodes, in list
\* order), the five logs, the ids examined by Step 3, and whether an
\* exception left the try block.
NewRun(m) ==
  [m |-> m, all_relationships |-> <<>>, rels |-> <<>>,
   other_log |-> <<>>, orphans_log |-> <<>>,
   dups_log |-> <<>>, fixed_log |-> <<>>, unfixable_log |-> <<>>,
   examined |-> <<>>, crashed |-> FALSE]

\* Step 0 deleting every typed non-relationship element of the Other folder,
\* whether or not FOLDER_MAP has its type
TidyOne_delete_classifiable(c, el) ==
  LET other == FirstFolderOfType(c.m, "other")
      is_rel == EndsWithRelationship(el) \/ Short(el.type) \in RELATIONSHIP_TYPES
  IN IF ~is_rel /\ el.type # NoType
       THEN [c EXCEPT !.m = RemoveFrom(c.m, other, el.id),
                      !.other_log = Append(@, [action |-> "deleted", id |-> el.id])]
       ELSE c

\* Step 0, one element of elements_to_process
TidyOne(c, el) ==
  LET other == FirstFolderOfType(c.m, "other")
      el_type_short == Short(el.type)
      is_rel == EndsWithRelationship(el) \/ el_type_short \in RELATIONSHIP_TYPES
      in_map == el_type_short \in DOMAIN FOLDER_MAP
      relm == RelationsFolderIn(c.m)
      relations_folder == get_or_create_relations_folder(c.m)
      form == FolderForTypeIn(c.m, el_type_short)
      correct_folder == get_folder_for_type(c.m, el_type_short)
      moved == \/ is_rel /\ relations_folder # other
               \/ ~is_rel /\ in_map /\ correct_folder # 0 /\ correct_folder # other
      after == IF is_rel
                 THEN IF relations_folder # other
                   THEN [c EXCEPT
                     !.m = RemoveFrom([relm EXCEPT ![relations_folder].elems = Append(@, el)],
                                      other, el.id),
                     !.other_log = Append(@, [action |-> "moved_relationship", id |-> el.id])]
                   ELSE [c EXCEPT !.m = relm]
               ELSE IF in_map
                 THEN IF correct_folder # 0 /\ correct_folder # other
                   THEN [c EXCEPT
                     !.m = RemoveFrom([form EXCEPT ![correct_folder].elems = Append(@, el)],
                                      other, el.id),
                     !.other_log = Append(@, [action |-> "moved_element", id |-> el.id])]
                   ELSE [c EXCEPT !.m = form]
               ELSE c
  IN IF ~moved /\ ~in_map /\ el.type # NoType
       THEN [after EXCEPT !.m = RemoveFrom(after.m, other, el.id),
                          !.other_log = Append(@, [action |-> "deleted", id |-> el.id])]
       ELSE after

RECURSIVE TidyLoop(_, _)
TidyLoop(c, todo) ==
  IF todo = <<>> THEN c ELSE TidyLoop(TidyOne(c, Head(todo)), Tail(todo))

\* Step 0: Tidy 'Other' Folder
Step0(c) ==
  LET other == FirstFolderOfType(c.m, "other")
  IN IF other = 0 THEN c ELSE TidyLoop(c, c.m[other].elems)

\* Step 1: Remove Orphans
RECURSIVE OrphanLoop(_, _, _)
OrphanLoop(c, valid_ids, todo) ==
  IF todo = <<>> THEN c
  ELSE LET rel == Head(todo)
       IN IF rel.source \notin valid_ids \/ rel.target \notin valid_ids
            THEN OrphanLoop([c EXCEPT !.m = _find_and_remove_element(c.m, rel.id),
                                      !.orphans_log = Append(@, rel.id)],
                            valid_ids, Tail(todo))
            ELSE OrphanLoop([c EXCEPT !.rels = Append(@, rel.id)], valid_ids, Tail(todo))

IdsOf(s) == [i \in DOMAIN s |-> s[i].id]

Step1(c) ==
  OrphanLoop([c EXCEPT !.all_relationships = IdsOf(find_all_relationships(c.m))],
             ValidIds(c.m), find_all_relationships(c.m))

\* Step 2: Remove Duplicates; todo is the copy list(rels_to_process)
RECURSIVE DuplicateLoop(_, _, _)
DuplicateLoop(c, unique_relationships, todo) ==
  IF todo = <<>> \/ c.crashed THEN c
  ELSE LET rel == find_element_by_id(c.m, Head(todo))
           rel_tuple == <<rel.source, rel.target, rel.type>>
       IN IF rel_tuple \in unique_relationships
            THEN IF find_element_by_id(c.m, rel.source) = NoneEl
                    \/ find_element_by_id(c.m, rel.target) = NoneEl
                   THEN [c EXCEPT !.crashed = TRUE]
                   ELSE DuplicateLoop(
                          [c EXCEPT !.m = _find_and_remove_element(c.m, rel.id),
                                    !.dups_log = Append(@, rel.id),
                                    !.rels = SelectSeq(@, LAMBDA x : x # rel.id)],
                          unique_relationships, Tail(todo))
            ELSE DuplicateLoop(c, unique_relationships \cup {rel_tuple}, Tail(todo))

Step2(c) == DuplicateLoop(c, {}, c.rels)

\* Step 3: Fix Illegal Relationships; todo is the copy list(rels_to_process)
RECURSIVE FixLoop(_, _)
FixLoop(c, todo) ==
  IF todo = <<>> \/ c.crashed THEN c
  ELSE LET rel == find_element_by_id(c.m, Head(todo))
           source_el == find_element_by_id(c.m, rel.source)
           target_el == find_element_by_id(c.m, rel.target)
           fix == _attempt_to_fix_relationship(c.m, rel)
           seen == [c EXCEPT !.examined = Append(@, rel.id)]
           entry == [id |-> rel.id, action |-> fix.action, source_type |-> source_el.type,
                     target_type |-> target_el.type, type |-> rel.type,
                     source |-> rel.source, target |-> rel.target, fixed |-> fix.rel]
       IN IF source_el = NoneEl \/ target_el = NoneEl
            THEN [seen EXCEPT !.crashed = TRUE]
          ELSE IF is_relationship_allowed(source_el.type, target_el.type, rel.type)
            THEN FixLoop(seen, Tail(todo))
          ELSE IF fix.action # "none"
            THEN FixLoop([seen EXCEPT !.m = SetRel(c.m, fix.rel),
                                      !.fixed_log = Append(@, entry)], Tail(todo))
          ELSE FixLoop([seen EXCEPT !.m = _find_and_remove_element(c.m, rel.id),
                                    !.unfixable_log = Append(@, entry)], Tail(todo))

Step3(c) == IF c.crashed THEN c ELSE FixLoop(c, c.rels)

\* the try block of validate_and_clean_relationships
CleanRun(m) == Step3(Step2(Step1(Step0(NewRun(m)))))

\* ---- src/8.3.py: history ----

HistoryCap == 40

save_history(h, m) ==
  IF Len(Append(h, m)) > HistoryCap THEN Tail(Append(h, m)) ELSE Append(h, m)

\* build_element_database: element_db_by_id, id -> type
build_element_database(m) ==
  [i \in ValidIds(m) |-> find_element_by_id(m, i).type]

\* ---- bounds and inputs ----

MaxRels == 2
MaxRuns == 2

RelIdOf == <<"r1", "r2", "r3", "r4">>

E1 == [id |-> "e1", type |-> Archi("ValueStream"), source |-> NoneId, target |-> NoneId]
E2 == [id |-> "e2", type |-> Archi("BusinessProcess"), source |-> NoneId, target |-> NoneId]
\* an element whose type is not in FOLDER_MAP
E3 == [id |-> "e3", type |-> Archi("Gadget"), source |-> NoneId, target |-> NoneId]

\* where the file keeps e2 and e3: in their layer folder or in the Other folder
ElementPlaces == [e2 : {"home", "other"}, e3 : {"home", "other"}]

\* a relationship of the file: its end points (every relationship touches e1;
\* the source may be the first relationship), its type, and where the file
\* keeps it: in the Relations folder, in a sub-folder of it, or in Other
RelOptions ==
  {o \in [source : {"e1", "e2", "e3", "r1"}, target : {"e1", "e2", "e3"},
          type : {"RealizationRelationship", "AssociationRelationship"},
          place : {"relations", "sub", "other"}] :
     "e1" \in {o.source, o.target}}

RelEl(rs, i) ==
  [id |-> RelIdOf[i], type |-> Archi(rs[i].type), source |-> rs[i].source,
   target |-> rs[i].target]

RECURSIVE Placed(_, _, _)
Placed(rs, place, i) ==
  IF i > Len(rs) THEN <<>>
  ELSE (IF rs[i].place = place THEN <<RelEl(rs, i)>> ELSE <<>>) \o Placed(rs, place, i + 1)

\* the tree that ET.parse returns for the file
FileModel(ep, rs) ==
  LET at(el, p, where) == IF p = where THEN <<el>> ELSE <<>>
      base == << [type |-> "strategy", name |-> "Strategy", elems |-> <<E1>>, sub |-> <<>>],
                 [type |-> "business", name |-> "Business",
                  elems |-> at(E2, ep.e2, "home") \o at(E3, ep.e3, "home"), sub |-> <<>>],
                 [type |-> "other", name |-> "Other",
                  elems |-> at(E2, ep.e2, "other") \o at(E3, ep.e3, "other")
                            \o Placed(rs, "other", 1), sub |-> <<>>] >>
      relations == [type |-> "relations", name |-> "Relations",
                    elems |-> Placed(rs, "relations", 1), sub |-> Placed(rs, "sub", 1)]
  IN IF relations.elems = <<>> /\ relations.sub = <<>> THEN base ELSE Append(base, relations)

\* model, history, element_db_by_id: the fields of ArchiIngestorApp;
\* runs: per invocation of the cleanup or of the autocomplete, its locals when
\* it ended;
\* rules_q: the arguments and results of calls into the compatibility rules
VARIABLES model, history, element_db_by_id, runs, rules_q, viewer

vars == <<model, history, element_db_by_id, runs, rules_q, viewer>>

app_vars == <<model, history, element_db_by_id, runs>>

NoQuery == [source_type |-> NoType, target_type |-> NoType, relationship_type |-> NoType,
            asked |-> FALSE, allowed |-> FALSE, repaired |-> FALSE,
            fix |-> [entries |-> <<>>, removed |-> 0, rel |-> NoneEl]]

\* Archimate3DViewer.__init__: no file parsed, no focus, no impact scores
NoViewer == [elements |-> [n \in {} |-> NoType], relationships |-> <<>>,
             selection |-> {}, focused_node_id |-> NoneId,
             decay_var |-> [num |-> 6, den |-> 10], seed_order |-> <<>>,
             impact_scores |-> [n \in {} |-> [num |-> 0, den |-> 1]],
             analysed |-> FALSE, raised |-> FALSE]

\* open_file
Init ==
  \E n \in 0..MaxRels : \E rs \in [1..n -> RelOptions] : \E ep \in ElementPlaces :
    /\ \A i \in 1..n : rs[i].source # RelIdOf[i]
    /\ model = FileModel(ep, rs)
    /\ history = <<FileModel(ep, rs)>>
    /\ element_db_by_id = build_element_database(FileModel(ep, rs))
    /\ runs = <<>>
    /\ rules_q = NoQuery
    /\ viewer = NoViewer

Logs(c) == [x \in DOMAIN c \ {"m"} |-> c[x]]

validate_and_clean_relationships ==
  /\ Len(runs) < MaxRuns
  /\ LET c == CleanRun(model)
     IN /\ model' = c.m
        /\ history' = save_history(history, model)
        /\ element_db_by_id' = IF c.crashed THEN element_db_by_id
                               ELSE build_element_database(c.m)
        /\ runs' = Append(runs, Logs(c))
        /\ UNCHANGED <<rules_q, viewer>>

Next == validate_and_clean_relationships

Spec == Init /\ [][Next]_vars

\* ---- properties of the cleanup ----

\* every relationship node of the tree, at any depth
Relationships(m) == {e \in AllElements(m) : EndsWithRelationship(e)}

Triple(r) == <<r.source, r.target, r.type>>

LastRun == runs[Len(runs)]

\* the tree the last invocation started from (its save_history snapshot)
Before == history[Len(history)]

\* the last invocation returned without an exception
Finished == runs # <<>> /\ ~LastRun.crashed

TypeOf(m, el_id) == find_element_by_id(m, el_id).type

Compatible(m, r) ==
  is_relationship_allowed(TypeOf(m, r.source), TypeOf(m, r.target), r.type)

EndpointsExist(m, r) == r.source \in ValidIds(m) /\ r.target \in ValidIds(m)

\* C1: after a finished cleanup every relationship of the model whose end
\* points exist is allowed by RELATIONSHIP_RULES for the types of its source
\* and target.
C1_AllCompatible ==
  Finished => \A r \in Relationships(model) :
                EndpointsExist(model, r) => Compatible(model, r)

\* C2: after a finished cleanup no two relationships of the model have the
\* same (source, target, type) triple.
C2_NoDuplicateTriples ==
  Finished => \A r1, r2 \in Relationships(model) :
                r1.id # r2.id => Triple(r1) # Triple(r2)

\* C3: after a finished cleanup the source and the target of every remaining
\* relationship are elements of the model.
C3_NoDanglingReference ==
  Finished => \A r \in Relationships(model) : EndpointsExist(model, r)

NothingLogged(run) ==
  /\ run.orphans_log = <<>> /\ run.dups_log = <<>>
  /\ run.fixed_log = <<>> /\ run.unfixable_log = <<>>

\* C4: when a cleanup has finished and cleanup is run again on the result,
\* the second run reports no orphan, no duplicate and no incompatible
\* relationship and leaves the model as it was.
C4_SecondRunIsNoOp ==
  (Len(runs) = 2 /\ ~runs[1].crashed) =>
     /\ ~runs[2].crashed
     /\ NothingLogged(runs[2])
     /\ model = Before

RepairEntries(run) == run.fixed_log \o run.unfixable_log

\* the number of entries of a log that are about relationship el_id
EntriesFor(log, el_id) == Cardinality({i \in DOMAIN log : log[i].id = el_id})

\* the elements that Step 0 deleted from the Other folder
Deleted(run) == {run.other_log[i].id : i \in {j \in DOMAIN run.other_log :
                                                  run.other_log[j].action = "deleted"}}

\* the element set the orphan pass works against
ElementSet == ValidIds(Before) \ Deleted(LastRun)

\* the relationships that are left after the orphan pass
AfterOrphanPass == {r \in Relationships(Before) : r.id \notin Range(LastRun.orphans_log)}

\* the relationships that are left after the duplicate pass
AfterDuplicatePass == {r \in AfterOrphanPass : r.id \notin Range(LastRun.dups_log)}

\* C7: in a finished cleanup every incompatible relationship that reaches the
\* repair step gets exactly one report entry, no relationship is examined
\* twice by the repair step, and afterwards the relationship is compatible
\* or is no longer in the model.
C7_RepairedExactlyOnce ==
  Finished =>
    /\ \A r \in AfterDuplicatePass :
         (EndpointsExist(Before, r) /\ ~Compatible(Before, r)) =>
            /\ EntriesFor(RepairEntries(LastRun), r.id) = 1
            /\ \A q \in Relationships(model) : q.id = r.id => Compatible(model, q)
    /\ \A i, j \in DOMAIN LastRun.examined :
         i # j => LastRun.examined[i] # LastRun.examined[j]

Position(s, x) == CHOOSE i \in DOMAIN s : s[i] = x

\* C8: among the relationships left after the orphan pass, a triple that
\* occurs k times has exactly k-1 of its relationships flagged Duplicate, and
\* every flagged one comes after an unflagged one with the same triple in
\* enumeration order.
C8_DuplicatePass ==
  Finished =>
    \A r \in AfterOrphanPass :
      LET same == {q \in AfterOrphanPass : Triple(q) = Triple(r)}
          flagged == {q \in same : q.id \in Range(LastRun.dups_log)}
      IN /\ Cardinality(flagged) = Cardinality(same) - 1
         /\ \A f \in flagged : \E q \in same \ flagged :
              /\ q.id \in Range(LastRun.all_relationships)
              /\ Position(LastRun.all_relationships, q.id)
                   < Position(LastRun.all_relationships, f.id)

\* C9: in a finished cleanup a relationship is flagged Orphaned exactly when
\* its source id or its target id is not in the element set.
C9_OrphanPass ==
  Finished =>
    \A r \in Relationships(Before) :
      r.id \in Range(LastRun.orphans_log)
        <=> (r.source \notin ElementSet \/ r.target \notin ElementSet)

\* ---- the compatibility rules and the repair of one relationship ----

\* the type names of RELATIONSHIP_RULES, and one it has no entry for
TypeNames == (DOMAIN RELATIONSHIP_RULES \ {"*"}) \cup {"Gadget"}

\* "archimate:Name", or "Name" as the callers that strip the prefix pass it
TypeString(prefixed, n) == IF prefixed THEN Archi(n) ELSE [ns |-> "", name |-> n]

\* a model of two elements a, b and one relationship from a to b
PairModel(source_type, target_type, relationship_type) ==
  << [type |-> "business", name |-> "Business",
      elems |-> << [id |-> "a", type |-> source_type, source |-> NoneId, target |-> NoneId],
                   [id |-> "b", type |-> target_type, source |-> NoneId, target |-> NoneId] >>,
      sub |-> <<>>],
     [type |-> "relations", name |-> "Relations",
      elems |-> << [id |-> "r", type |-> relationship_type, source |-> "a", target |-> "b"] >>,
      sub |-> <<>>] >>

InitRules ==
  \E s \in TypeNames, t \in TypeNames, r \in RELATIONSHIP_TYPES, prefixed \in BOOLEAN :
    /\ rules_q = [NoQuery EXCEPT !.source_type = TypeString(prefixed, s),
                                 !.target_type = TypeString(prefixed, t),
                                 !.relationship_type = TypeString(prefixed, r)]
    /\ model = <<>>
    /\ history = <<>>
    /\ element_db_by_id = <<>>
    /\ runs = <<>>
    /\ viewer = NoViewer

\* a call of is_relationship_allowed
AskAllowed ==
  /\ ~rules_q.asked
  /\ rules_q' = [rules_q EXCEPT !.asked = TRUE, !.allowed =
                   is_relationship_allowed(rules_q.source_type, rules_q.target_type,
                                           rules_q.relationship_type)]
  /\ UNCHANGED <<app_vars, viewer>>

\* the cleanup of the model that holds just this relationship: what Step 3
\* logged for it and the relationship it left (NoneEl when it was removed)
RepairOne ==
  /\ ~rules_q.repaired
  /\ LET c == CleanRun(PairModel(rules_q.source_type, rules_q.target_type,
                                 rules_q.relationship_type))
     IN rules_q' = [rules_q EXCEPT !.repaired = TRUE, !.fix =
                      [entries |-> c.fixed_log \o c.unfixable_log,
                       removed |-> Len(c.unfixable_log),
                       rel |-> find_element_by_id(c.m, "r")]]
  /\ UNCHANGED <<app_vars, viewer>>

NextRules == AskAllowed \/ RepairOne

SpecRules == InitRules /\ [][NextRules]_vars

\* ---- properties of the compatibility rules ----

\* the table the lookup is to use: the one of the source type, the "*" table
\* when and only when the source type has none
TableFor(s) ==
  IF s \in DOMAIN RELATIONSHIP_RULES THEN RELATIONSHIP_RULES[s] ELSE RELATIONSHIP_RULES["*"]

AllowedBy(table, t, r) == r \in DOMAIN table /\ (t \in table[r] \/ "*" \in table[r])

ValidTypes(s, t) == {x \in RELATIONSHIP_TYPES : is_relationship_allowed(s, t, Archi(x))}

\* C6: an incompatible relationship from S to T of type R gets exactly the
\* first applicable of: reversed when R is allowed from T to S; else retyped
\* in place when some type is allowed from S to T; else reversed and retyped
\* when some type is allowed from T to S; else removed.
C6_RepairOrder ==
  LET S == rules_q.source_type
      T == rules_q.target_type
      R == rules_q.relationship_type
      fix == rules_q.fix
      e == fix.entries[1]
      step1 == is_relationship_allowed(T, S, R)
      step2 == ~step1 /\ ValidTypes(S, T) # {}
      step3 == ~step1 /\ ~step2 /\ ValidTypes(T, S) # {}
      step4 == ~step1 /\ ~step2 /\ ~step3
  IN (rules_q.repaired /\ ~is_relationship_allowed(S, T, R)) =>
       /\ Len(fix.entries) = 1
       /\ step1 <=> (e.action = "reversed" /\ fix.rel.source = "b" /\ fix.rel.target = "a"
                     /\ fix.rel.type = R)
       /\ step2 <=> (e.action = "retyped" /\ fix.rel.source = "a" /\ fix.rel.target = "b"
                     /\ fix.rel.type # R)
       /\ step3 <=> (e.action = "reversed_retyped" /\ fix.rel.source = "b"
                     /\ fix.rel.target = "a" /\ fix.rel.type # R)
       /\ step4 <=> (e.action = "none" /\ fix.rel = NoneEl)

\* C6 witness: a relationship that is not allowed as it stands but is allowed
\* in the other direction went through the repair and was reversed.
C6_Witness ==
  /\ rules_q.repaired
  /\ ~is_relationship_allowed(rules_q.source_type, rules_q.target_type,
                              rules_q.relationship_type)
  /\ is_relationship_allowed(rules_q.target_type, rules_q.source_type,
                             rules_q.relationship_type)
  /\ Len(rules_q.fix.entries) = 1
  /\ rules_q.fix.entries[1].action = "reversed"


\* ---- src/Viewer.py: impact propagation (run_impact_analysis) ----

\* Scores and strengths are fixed-point numbers: the integer x stands for
\* x / Scale. The decay factors and the weights of the inputs below are
\* dyadic, so every product and sum of a run is exact, here and in floats.
Scale == 2^20

\* bounds of the graphs handed to the viewer
MaxEdges == 2

max_steps == 6

\* self.impact_min_display = 0.01
impact_min_display == [num |-> 1, den |-> 100]

\* the weights dict, in hundredths
weights ==
  [InfluenceRelationship |-> 100, TriggeringRelationship |-> 90,
   FlowRelationship |-> 80, ServingRelationship |-> 60,
   AccessRelationship |-> 50, UsedByRelationship |-> 50,
   AssignmentRelationship |-> 30, CompositionRelationship |-> 40,
   AssociationRelationship |-> 20, RealizationRelationship |-> 40]

\* weights.get(rtype, 0.25): rtype is rel['type'] as the file spells it (only
\* a "{namespace}" part is cut off), so "archimate:X" is no key of the dict
Weight(rel_type) ==
  IF rel_type.ns = "" /\ rel_type.name \in DOMAIN weights
    THEN weights[rel_type.name] ELSE 25

\* self._strip_archimate_prefix(self.elements[eid]['type']).lower() == "driver"
IsDriver(element_type) == Short(element_type) = "Driver"

\* seed_nodes: the selected Driver elements, else the focused element
seed_nodes(v) ==
  LET drivers == {eid \in v.selection : IsDriver(v.elements[eid])}
  IN IF drivers # {} THEN drivers
     ELSE IF v.focused_node_id # NoneId THEN {v.focused_node_id}
     ELSE {}

\* _build_relationship_networks: elements[n]['relationships']['out'] / ['in']
OutOf(v, n) == SelectSeq(v.relationships, LAMBDA rel : rel.source = n)

InTo(v, n) == SelectSeq(v.relationships, LAMBDA rel : rel.target = n)

\* dict.get(key, default)
Get(d, key, default) == IF key \in DOMAIN d THEN d[key] ELSE default

\* x < f and x > f for a fixed-point x and a fraction f
LessThan(x, f) == x * f.den < Scale * f.num

MoreThan(x, f) == x * f.den > Scale * f.num

\* strength * weight * self.impact_decay, and the same times 0.5 for an
\* inbound relationship
Propagated(strength, rel_type, decay, inbound) ==
  (strength * Weight(rel_type) * decay.num)
    \div (100 * decay.den * (IF inbound THEN 2 ELSE 1))

\* one pass of a "for rel in ..." loop of the propagation: the score of the
\* node at the other end grows by what is propagated, and the node is queued
\* when this is the shortest way it has been reached
PropagateRel(st, rel, strength, depth, inbound) ==
  LET other == IF inbound THEN rel.source ELSE rel.target
      propagated == Propagated(strength, rel.type, st.decay, inbound)
      new_score == st.scores[other] + propagated
      scored == IF new_score > st.scores[other] + (Scale \div 1000000000)
                  THEN [st EXCEPT !.scores[other] = new_score] ELSE st
      nd == depth + 1
  IN IF other \notin DOMAIN st.scores THEN st
     ELSE IF LessThan(propagated, impact_min_display) THEN st
     ELSE IF MoreThan(propagated, [num |-> 1, den |-> 100])
             /\ Get(st.visited_depth, other, 999) > nd
       THEN [scored EXCEPT !.visited_depth = (other :> nd) @@ @,
                           !.q = Append(@, <<other, propagated>>)]
     ELSE scored

RECURSIVE RelLoop(_, _, _, _, _)
RelLoop(st, rels, strength, depth, inbound) ==
  IF rels = <<>> THEN st
  ELSE CHOOSE out \in {RelLoop(s, Tail(rels), strength, depth, inbound) :
                         s \in {PropagateRel(st, Head(rels), strength, depth, inbound)}} : TRUE

\* the loop without the "if depth >= max_steps: continue" of its head
RECURSIVE Drain_no_depth_limit(_, _)
Drain_no_depth_limit(v, st) ==
  IF st.q = <<>> THEN st
  ELSE LET node_id == Head(st.q)[1]
           strength == Head(st.q)[2]
           depth == Get(st.visited_depth, node_id, 0)
           popped == [st EXCEPT !.q = Tail(@)]
       IN IF node_id \notin DOMAIN v.elements THEN [popped EXCEPT !.raised = TRUE]
          ELSE Drain_no_depth_limit(v,
                 RelLoop(RelLoop(popped, OutOf(v, node_id), strength, depth, FALSE),
                         InTo(v, node_id), strength, depth, TRUE))

\* while q: ... (the outgoing relationships of the node, then the inbound);
\* self.elements[node_id] raises KeyError when node_id is no element
RECURSIVE Drain(_, _)
Drain(v, st) ==
  IF st.q = <<>> THEN st
  ELSE LET node_id == Head(st.q)[1]
           strength == Head(st.q)[2]
           depth == Get(st.visited_depth, node_id, 0)
           popped == [st EXCEPT !.q = Tail(@)]
       IN IF depth >= max_steps THEN Drain(v, popped)
          ELSE IF node_id \notin DOMAIN v.elements THEN [popped EXCEPT !.raised = TRUE]
          ELSE Drain(v, RelLoop(RelLoop(popped, OutOf(v, node_id), strength, depth, FALSE),
                                InTo(v, node_id), strength, depth, TRUE))

\* scores, q and visited_depth once every seed has been given 1.0 and queued,
\* the seeds in the order the set seed_nodes is iterated in
Seeded(v, order) ==
  [scores |-> [eid \in DOMAIN v.elements \cup Range(order) |->
                 IF eid \in Range(order) THEN Scale ELSE 0],
   q |-> [i \in DOMAIN order |-> <<order[i], Scale>>],
   visited_depth |-> [s \in Range(order) |-> 0],
   decay |-> v.decay_var,
   raised |-> FALSE]

\* max(scores.values())
MaxScore(scores) == CHOOSE x \in Range(scores) : \A y \in Range(scores) : y <= x

\* the scores handed back as they are, without the division
Normalised_not_divided(scores) == [k \in DOMAIN scores |-> [num |-> scores[k], den |-> Scale]]

\* scores[k] = scores[k] / max_score, kept as the fraction it is
Normalised(scores) ==
  IF MaxScore(scores) <= 0 THEN [n \in {} |-> [num |-> 0, den |-> 1]]
  ELSE [k \in DOMAIN scores |-> [num |-> scores[k], den |-> MaxScore(scores)]]

\* the decay factors typed in; both pass 0.05 <= decay < 1.0
Decays == {[num |-> 1, den |-> 2], [num |-> 3, den |-> 4]}

\* the elements of the parsed file: two Drivers and two others
ViewerElements ==
  [d1 |-> Archi("Driver"), d2 |-> Archi("Driver"),
   g1 |-> Archi("Goal"), g2 |-> Archi("Goal")]

\* the relationships a file may hold; the type is spelt with the prefix, as
\* Archi writes it, or without
EdgeOptions ==
  [source : DOMAIN ViewerElements, target : DOMAIN ViewerElements,
   type : {Archi("InfluenceRelationship"), TypeString(FALSE, "InfluenceRelationship")}]

\* the orders a set of seeds can be iterated in
Orders(S) == {o \in [1..Cardinality(S) -> S] : \A i, j \in DOMAIN o : o[i] = o[j] => i = j}

\* parse_archimate_file, then a selection in the entity list and a focus
InitImpact ==
  \E n \in 0..MaxEdges : \E es \in [1..n -> EdgeOptions] :
  \E sel \in SUBSET {"d1", "d2", "g1"} : \E focus \in {NoneId, "d1", "g1"} :
  \E decay \in Decays :
    /\ \A i \in 1..n : es[i].source # es[i].target
    /\ viewer = [NoViewer EXCEPT !.elements = ViewerElements, !.relationships = es,
                                 !.selection = sel, !.focused_node_id = focus,
                                 !.decay_var = decay]
    /\ model = <<>>
    /\ history = <<>>
    /\ element_db_by_id = <<>>
    /\ runs = <<>>
    /\ rules_q = NoQuery

run_impact_analysis ==
  /\ ~viewer.analysed
  /\ ~viewer.raised
  /\ seed_nodes(viewer) # {}
  /\ \E order \in Orders(seed_nodes(viewer)) :
       LET drained == Drain(viewer, Seeded(viewer, order))
       IN viewer' = IF drained.raised
                      THEN [viewer EXCEPT !.seed_order = order, !.raised = TRUE]
                      ELSE [viewer EXCEPT
                              !.seed_order = order,
                              !.impact_scores = Normalised(drained.scores),
                              !.analysed = TRUE]
  /\ UNCHANGED <<app_vars, rules_q>>

NextImpact == run_impact_analysis

SpecImpact == InitImpact /\ [][NextImpact]_vars

\* a node that is no seed ended with a score above 0
NonSeedReached ==
  \E n \in DOMAIN viewer.impact_scores :
    n \notin seed_nodes(viewer) /\ viewer.impact_scores[n].num > 0

\* C10: after an impact analysis that reached at least one node that is no
\* seed, the normalised score of every seed is exactly 1.0
C10_SeedsScoreOne ==
  (viewer.analysed /\ NonSeedReached) =>
    \A s \in seed_nodes(viewer) :
      viewer.impact_scores[s].num = viewer.impact_scores[s].den

\* a run from two seeds that reached a node that is no seed
C10_Witness ==
  /\ viewer.analysed
  /\ Cardinality(seed_nodes(viewer)) = 2
  /\ NonSeedReached

\* C11: every score of the result of an impact analysis lies in the closed
\* interval [0, 1].
C11_ScoresInUnitInterval ==
  viewer.analysed =>
    \A n \in DOMAIN viewer.impact_scores :
      /\ viewer.impact_scores[n].den > 0
      /\ 0 <= viewer.impact_scores[n].num
      /\ viewer.impact_scores[n].num <= viewer.impact_scores[n].den

\* a run in which some node collected more than 1.0 before the division
C11_Witness ==
  /\ viewer.analysed
  /\ \E n \in DOMAIN viewer.impact_scores : viewer.impact_scores[n].num > Scale
  /\ \E n \in DOMAIN viewer.impact_scores :
       /\ viewer.impact_scores[n].num > 0
       /\ viewer.impact_scores[n].num < viewer.impact_scores[n].den

\* ---- impact propagation along a chain of elements ----

\* the longest chain of relationships in a parsed file
MaxChain == 7

ChainName == <<"n0", "n1", "n2", "n3", "n4", "n5", "n6", "n7", "n8", "n9", "n10">>

\* relationship i of the chain joins element i and element i+1, in either
\* direction
ChainRel(i, forward, type) ==
  IF forward THEN [source |-> ChainName[i], target |-> ChainName[i + 1], type |-> type]
  ELSE [source |-> ChainName[i + 1], target |-> ChainName[i], type |-> type]

\* parse_archimate_file of a file whose relationships form a chain from the
\* focused element n0, and that holds one more element, apart from the chain
InitChain ==
  \E n \in 0..MaxChain : \E forward \in [1..n -> BOOLEAN] :
  \E type \in [1..n -> {Archi("InfluenceRelationship"),
                        TypeString(FALSE, "InfluenceRelationship")}] :
  \E decay \in Decays :
    /\ viewer = [NoViewer EXCEPT
                   !.elements = [x \in {ChainName[i] : i \in 1..(n + 1)} \cup {"apart"}
                                   |-> Archi("Goal")],
                   !.relationships = [i \in 1..n |-> ChainRel(i, forward[i], type[i])],
                   !.focused_node_id = "n0",
                   !.decay_var = decay]
    /\ model = <<>>
    /\ history = <<>>
    /\ element_db_by_id = <<>>
    /\ runs = <<>>
    /\ rules_q = NoQuery

SpecChain == InitChain /\ [][NextImpact]_vars

\* the elements one hop or less from a set of elements, over relationships
\* in either direction
Near(v, S) ==
  S \cup {rel.target : rel \in {r \in Range(v.relationships) : r.source \in S}}
    \cup {rel.source : rel \in {r \in Range(v.relationships) : r.target \in S}}

RECURSIVE WithinHops(_, _, _)
WithinHops(v, S, h) == IF h = 0 THEN S ELSE WithinHops(v, Near(v, S), h - 1)

\* C12: after an impact analysis an element with no path of at most
\* max_steps relationships, in either direction, from a seed has score 0.0;
\* when no element besides the seeds has a path, every other score is 0.0.
C12_UnreachedScoreZero ==
  viewer.analysed =>
    \A n \in DOMAIN viewer.impact_scores :
      n \notin WithinHops(viewer, seed_nodes(viewer), max_steps)
        => viewer.impact_scores[n].num = 0

\* a run on a chain where the element max_steps hops away was scored and
\* another element lies beyond it
C12_Witness ==
  /\ viewer.analysed
  /\ "n7" \in DOMAIN viewer.impact_scores
  /\ viewer.impact_scores["n6"].num > 0

\* the values of the single paths of at most h relationships, followed in
\* either direction, from a seed to each element: 1.0 for the empty path at
\* a seed, and strength * weight * decay (* 0.5 against the direction) for
\* each further relationship
RECURSIVE PathValues(_, _)
PathValues(v, h) ==
  IF h = 0
    THEN [n \in DOMAIN v.elements |-> IF n \in seed_nodes(v) THEN {Scale} ELSE {}]
  ELSE LET prev == PathValues(v, h - 1)
       IN [n \in DOMAIN v.elements |->
             prev[n]
             \cup UNION {{Propagated(x, r.type, v.decay_var, FALSE) : x \in prev[r.source]}
                           : r \in {e \in Range(v.relationships) : e.target = n}}
             \cup UNION {{Propagated(x, r.type, v.decay_var, TRUE) : x \in prev[r.target]}
                           : r \in {e \in Range(v.relationships) : e.source = n}}]

\* C13: the score an element has collected when the queue is drained, before
\* the division, is 0.0 or the value of one single path from a seed to it,
\* never the sum of several propagated values.
C13_MaxNotSum ==
  viewer.analysed =>
    \A n \in DOMAIN viewer.impact_scores :
      viewer.impact_scores[n].num \in PathValues(viewer, max_steps)[n] \cup {0}

\* ---- the viewer across file loads ----

\* the files that can be loaded: some of the elements, and at most one
\* relationship (its end points need not be elements of the file)
ReloadFiles ==
  {[elements |-> [n \in S |-> ViewerElements[n]], relationships |-> es] :
     S \in (SUBSET DOMAIN ViewerElements) \ {{}},
     es \in {<<>>} \cup {<<e>> : e \in {x \in EdgeOptions :
                                          x.source # x.target /\ x.type.ns = "archimate"}}}

\* load_file: parse_archimate_file replaces self.elements and
\* self.relationships and populate_entity_tree rebuilds the entity list; the
\* focus is left as it was
load_file ==
  /\ ~viewer.analysed
  /\ ~viewer.raised
  /\ \E file \in ReloadFiles :
       viewer' = [viewer EXCEPT !.elements = file.elements,
                                !.relationships = file.relationships,
                                !.selection = {}]
  /\ UNCHANGED <<app_vars, rules_q>>

set_focus_entity ==
  /\ ~viewer.analysed
  /\ ~viewer.raised
  /\ \E element_id \in DOMAIN ViewerElements :
       viewer' = IF element_id \in DOMAIN viewer.elements
                   THEN [viewer EXCEPT !.focused_node_id = element_id]
                   ELSE viewer
  /\ UNCHANGED <<app_vars, rules_q>>

clear_focus ==
  /\ ~viewer.analysed
  /\ ~viewer.raised
  /\ viewer' = [viewer EXCEPT !.focused_node_id = NoneId]
  /\ UNCHANGED <<app_vars, rules_q>>

InitReload ==
  \E file \in ReloadFiles : \E decay \in Decays :
    /\ viewer = [NoViewer EXCEPT !.elements = file.elements,
                                 !.relationships = file.relationships,
                                 !.decay_var = decay]
    /\ model = <<>>
    /\ history = <<>>
    /\ element_db_by_id = <<>>
    /\ runs = <<>>
    /\ rules_q = NoQuery

NextReload == load_file \/ set_focus_entity \/ clear_focus \/ run_impact_analysis

SpecReload == InitReload /\ [][NextReload]_vars

\* C15: an impact analysis never raises an error, also when a seed id is no
\* element of the graph.
C15_NoErrorOnMissingSeed == ~viewer.raised

\* ---- impact propagation over a single relationship ----

\* parse_archimate_file of a file with elements X and Y and one relationship
\* X -> Y, of any type of the weights table, spelt with or without the
\* prefix; the focus is on X or on Y. With decay 0.8 the products are not
\* dyadic: the fixed-point value is the product rounded down, less than
\* 1 / Scale below it and far from every threshold.
InitScenario ==
  \E name \in DOMAIN weights : \E prefixed \in BOOLEAN : \E focus \in {"X", "Y"} :
  \E decay \in Decays \cup {[num |-> 4, den |-> 5]} :
    /\ viewer = [NoViewer EXCEPT
                   !.elements = [n \in {"X", "Y"} |-> Archi("Goal")],
                   !.relationships = <<[source |-> "X", target |-> "Y",
                                        type |-> TypeString(prefixed, name)]>>,
                   !.focused_node_id = focus,
                   !.decay_var = decay]
    /\ model = <<>>
    /\ history = <<>>
    /\ element_db_by_id = <<>>
    /\ runs = <<>>
    /\ rules_q = NoQuery

SpecScenario == InitScenario /\ [][NextImpact]_vars

\* seed X, one relationship X -> Y of weight 0.6, decay 0.8
ScenarioC ==
  /\ viewer.focused_node_id = "X"
  /\ viewer.relationships[1].type = TypeString(FALSE, "ServingRelationship")
  /\ viewer.decay_var = [num |-> 4, den |-> 5]

\* C16: in scenario C the score of Y before the division is 0.6 * 0.8 = 0.48
\* (to the resolution of the fixed-point unit), the score of X is still 1.0
\* and so is the maximum, so the division changes no score.
C16_ScenarioC ==
  (viewer.analysed /\ ScenarioC) =>
    /\ viewer.impact_scores["Y"].num * 100 <= 48 * Scale
    /\ viewer.impact_scores["Y"].num * 100 > 48 * Scale - 100
    /\ viewer.impact_scores["X"].num = Scale
    /\ \A n \in DOMAIN viewer.impact_scores : viewer.impact_scores[n].den = Scale

\* ---- src/config.py: AUTOCOMPLETE_RULES ----

\* per rule: its name, source_types, target_types, the 'type' of each of its
\* conditions, the type of the element its action creates ("" when the action
\* has no 'create_element') and the action's 'create_relationships'
AUTOCOMPLETE_RULES == <<
  [name |-> "Connect Goals to Business Capabilities that realize them",
   source_types |-> <<"Capability">>, target_types |-> <<"Goal">>,
   conditions |-> <<"no_relationship_of_type">>,
   create_element |-> "",
   create_relationships |-> <<[type |-> "RealizationRelationship", source |-> "source", target |-> "target"]>>],
  [name |-> "Connect Requirements to Business Services that fulfill them",
   source_types |-> <<"BusinessService">>, target_types |-> <<"Requirement">>,
   conditions |-> <<"no_relationship_of_type">>,
   create_element |-> "",
   create_relationships |-> <<[type |-> "RealizationRelationship", source |-> "source", target |-> "target"]>>],
  [name |-> "Connect Drivers to Business Processes they influence",
   source_types |-> <<"Driver">>, target_types |-> <<"BusinessProcess">>,
   conditions |-> <<"no_relationship_of_type">>,
   create_element |-> "",
   create_relationships |-> <<[type |-> "InfluenceRelationship", source |-> "source", target |-> "target"]>>],
  [name |-> "Connect Business Services to Application Services that realize them",
   source_types |-> <<"ApplicationService">>, target_types |-> <<"BusinessService">>,
   conditions |-> <<"no_relationship_of_type", "name_similarity">>,
   create_element |-> "",
   create_relationships |-> <<[type |-> "RealizationRelationship", source |-> "source", target |-> "target"]>>],
  [name |-> "Connect Business Processes to Application Services that support them",
   source_types |-> <<"ApplicationService">>, target_types |-> <<"BusinessProcess">>,
   conditions |-> <<"no_relationship_of_type", "name_similarity">>,
   create_element |-> "",
   create_relationships |-> <<[type |-> "ServingRelationship", source |-> "source", target |-> "target"]>>],
  [name |-> "Connect Business Objects to Data Objects that implement them",
   source_types |-> <<"DataObject">>, target_types |-> <<"BusinessObject">>,
   conditions |-> <<"no_relationship_of_type", "name_similarity">>,
   create_element |-> "",
   create_relationships |-> <<[type |-> "RealizationRelationship", source |-> "source", target |-> "target"]>>],
  [name |-> "Connect Application Components to Nodes that host them",
   source_types |-> <<"Node">>, target_types |-> <<"ApplicationComponent">>,
   conditions |-> <<"no_relationship_of_type", "name_similarity">>,
   create_element |-> "",
   create_relationships |-> <<[type |-> "AssignmentRelationship", source |-> "source", target |-> "target"]>>],
  [name |-> "Connect Application Services to Technology Services that enable them",
   source_types |-> <<"TechnologyService">>, target_types |-> <<"ApplicationService">>,
   conditions |-> <<"no_relationship_of_type", "name_similarity">>,
   create_element |-> "",
   create_relationships |-> <<[type |-> "ServingRelationship", source |-> "source", target |-> "target"]>>],
  [name |-> "Connect Data Objects to Artifacts that store them",
   source_types |-> <<"Artifact">>, target_types |-> <<"DataObject">>,
   conditions |-> <<"no_relationship_of_type", "name_similarity">>,
   create_element |-> "",
   create_relationships |-> <<[type |-> "RealizationRelationship", source |-> "source", target |-> "target"]>>],
  [name |-> "Add Application Interface between Business Actors and Application Services",
   source_types |-> <<"BusinessActor", "BusinessRole">>, target_types |-> <<"ApplicationService">>,
   conditions |-> <<"no_relationship_of_type", "target_name_contains">>,
   create_element |-> "ApplicationInterface",
   create_relationships |-> <<[type |-> "AssignmentRelationship", source |-> "intermediary", target |-> "target"], [type |-> "ServingRelationship", source |-> "intermediary", target |-> "source"]>>],
  [name |-> "Add Technology Interface between Application Components and Technology Services",
   source_types |-> <<"ApplicationComponent">>, target_types |-> <<"TechnologyService">>,
   conditions |-> <<"no_relationship_of_type", "target_name_contains">>,
   create_element |-> "TechnologyInterface",
   create_relationships |-> <<[type |-> "AssignmentRelationship", source |-> "intermediary", target |-> "target"], [type |-> "ServingRelationship", source |-> "intermediary", target |-> "source"]>>],
  [name |-> "Connect Capabilities to Value Streams they enable",
   source_types |-> <<"Capability">>, target_types |-> <<"ValueStream">>,
   conditions |-> <<"no_relationship_of_type">>,
   create_element |-> "",
   create_relationships |-> <<[type |-> "RealizationRelationship", source |-> "source", target |-> "target"]>>],
  [name |-> "Connect Value Streams to Business Processes that implement them",
   source_types |-> <<"BusinessProcess">>, target_types |-> <<"ValueStream">>,
   conditions |-> <<"no_relationship_of_type", "name_similarity">>,
   create_element |-> "",
   create_relationships |-> <<[type |-> "RealizationRelationship", source |-> "source", target |-> "target"]>>],
  [name |-> "Compose Business Processes from sub-processes",
   source_types |-> <<"BusinessProcess">>, target_types |-> <<"BusinessProcess">>,
   conditions |-> <<"no_relationship_of_type", "target_name_is_part_of_source">>,
   create_element |-> "",
   create_relationships |-> <<[type |-> "CompositionRelationship", source |-> "source", target |-> "target"]>>],
  [name |-> "Compose Application Components from sub-components",
   source_types |-> <<"ApplicationComponent">>, target_types |-> <<"ApplicationComponent">>,
   conditions |-> <<"no_relationship_of_type", "target_name_is_part_of_source">>,
   create_element |-> "",
   create_relationships |-> <<[type |-> "CompositionRelationship", source |-> "source", target |-> "target"]>>] >>

\* ---- src/8.3.py: autocomplete_model_conservative ----

\* el_type_full.replace("archimate:", "")
StripArchimate(t) == t.name

\* if el_id and el_name and el_type
HasIdNameType(el) ==
  /\ el.id # NoneId /\ el.id # ""
  /\ el.name # ""
  /\ StripArchimate(el.type) # ""

\* the element_data dicts in the order the two findall loops meet them: the
\* element children of the top-level folders only
RECURSIVE ElementData(_, _)
ElementData(m, i) ==
  IF i > Len(m) THEN <<>>
  ELSE SelectSeq(m[i].elems, HasIdNameType) \o ElementData(m, i + 1)

\* elements_by_type.get(el_type, [])
ElementsByType(data, el_type) ==
  SelectSeq(data, LAMBDA el : StripArchimate(el.type) = el_type)

\* for el_type in types: elements.extend(elements_by_type.get(el_type, []))
RECURSIVE Extended(_, _, _)
Extended(data, types, k) ==
  IF k > Len(types) THEN <<>>
  ELSE ElementsByType(data, types[k]) \o Extended(data, types, k + 1)

source_elements(data, rule) == Extended(data, rule.source_types, 1)

target_elements(data, rule) == Extended(data, rule.target_types, 1)

\* total_iterations += len(source_elements) * len(target_elements), from rule r on
RECURSIVE total_iterations(_, _)
total_iterations(data, r) ==
  IF r > Len(AUTOCOMPLETE_RULES) THEN 0
  ELSE Len(source_elements(data, AUTOCOMPLETE_RULES[r]))
         * Len(target_elements(data, AUTOCOMPLETE_RULES[r]))
       + total_iterations(data, r + 1)

\* the first rule whose two loops have a body to run: the rule of the first
\* (source_data, target_data); 0 when no rule has a pair
FirstRule(data) ==
  First({r \in DOMAIN AUTOCOMPLETE_RULES :
           /\ source_elements(data, AUTOCOMPLETE_RULES[r]) # <<>>
           /\ target_elements(data, AUTOCOMPLETE_RULES[r]) # <<>>})

\* The locals of the handler when it ends.  The class has no method
\* _evaluate_autocomplete_conditions (and no _execute_autocomplete_action):
\* the attribute lookup of the first pass through the loop body raises
\* AttributeError after current_iteration += 1; the finally clause destroys the
\* progress window and the exception leaves the handler.  Nothing between two
\* passes reads a cancellation request: cancel_asked is carried unread.
AutocompleteRun(m, cancel_asked) ==
  LET data == ElementData(m, 1)
      total == total_iterations(data, 1)
      rule == AUTOCOMPLETE_RULES[FirstRule(data)]
      none == [total_iterations |-> total, current_iteration |-> 0,
               rule |-> "", source_data |-> NoneId, target_data |-> NoneId,
               added_elements_log |-> <<>>, added_relationships_log |-> <<>>,
               raised |-> FALSE, reported |-> FALSE, cancel_asked |-> cancel_asked]
  IN IF total = 0 THEN none
     ELSE [none EXCEPT !.current_iteration = 1,
                       !.rule = rule.name,
                       !.source_data = source_elements(data, rule)[1].id,
                       !.target_data = target_elements(data, rule)[1].id,
                       !.raised = TRUE]

\* the elements a file may hold
Pool ==
  [c1 |-> [id |-> "c1", name |-> "Claims", type |-> Archi("Capability"),
           source |-> NoneId, target |-> NoneId, folder |-> "Strategy"],
   g1 |-> [id |-> "g1", name |-> "Growth", type |-> Archi("Goal"),
           source |-> NoneId, target |-> NoneId, folder |-> "Motivation"],
   p1 |-> [id |-> "p1", name |-> "Billing", type |-> Archi("BusinessProcess"),
           source |-> NoneId, target |-> NoneId, folder |-> "Business"],
   p2 |-> [id |-> "p2", name |-> "Billing run", type |-> Archi("BusinessProcess"),
           source |-> NoneId, target |-> NoneId, folder |-> "Business"],
   a1 |-> [id |-> "a1", name |-> "Clerk", type |-> Archi("BusinessActor"),
           source |-> NoneId, target |-> NoneId, folder |-> "Business"],
   s1 |-> [id |-> "s1", name |-> "Portal service", type |-> Archi("ApplicationService"),
           source |-> NoneId, target |-> NoneId, folder |-> "Application"]]

PoolOrder == <<"c1", "g1", "p1", "p2", "a1", "s1">>

El(n) == [x \in {"id", "name", "type", "source", "target"} |-> Pool[n][x]]

\* the file: the elements of present, each in the folder of its layer; p2 in a
\* sub-folder of Business when nested; g1 without a name when unnamed; a
\* nameless Realization from c1 to g1 in the Relations folder when linked
AutocompleteFile(present, nested, unnamed, linked) ==
  LET el(n) == IF n = "g1" /\ unnamed THEN [El(n) EXCEPT !.name = ""] ELSE El(n)
      top(f) == SelectSeq(PoolOrder, LAMBDA n : n \in present /\ Pool[n].folder = f
                                                /\ ~(n = "p2" /\ nested))
      elems(f) == [k \in DOMAIN top(f) |-> el(top(f)[k])]
      folder(f) == [type |-> Lower(f), name |-> f, elems |-> elems(f),
                    sub |-> IF f = "Business" /\ nested /\ "p2" \in present
                              THEN <<El("p2")>> ELSE <<>>]
      rel == [id |-> "r1", name |-> "", type |-> Archi("RealizationRelationship"),
              source |-> "c1", target |-> "g1"]
  IN << folder("Strategy"), folder("Business"), folder("Application"),
        folder("Motivation") >>
     \o (IF linked THEN << [type |-> "relations", name |-> "Relations",
                            elems |-> <<rel>>, sub |-> <<>>] >> ELSE <<>>)

\* open_file
InitAutocomplete ==
  \E present \in SUBSET DOMAIN Pool : \E nested, unnamed, linked \in BOOLEAN :
    /\ linked => {"c1", "g1"} \subseteq present
    /\ model = AutocompleteFile(present, nested, unnamed, linked)
    /\ history = <<AutocompleteFile(present, nested, unnamed, linked)>>
    /\ element_db_by_id = build_element_database(model)
    /\ runs = <<>>
    /\ rules_q = NoQuery
    /\ viewer = NoViewer

\* the Autocomplete button; cancel_asked: the user asks for the run to stop as
\* soon as the progress window is up
autocomplete_model_conservative ==
  /\ Len(runs) < MaxRuns
  /\ \E cancel_asked \in BOOLEAN :
       LET run == AutocompleteRun(model, cancel_asked)
       IN /\ history' = save_history(history, model)
          /\ model' = model
          /\ element_db_by_id' = IF run.raised \/ run.total_iterations = 0
                                   THEN element_db_by_id
                                   ELSE build_element_database(model)
          /\ runs' = Append(runs, run)
  /\ UNCHANGED <<rules_q, viewer>>

NextAutocomplete == autocomplete_model_conservative

SpecAutocomplete == InitAutocomplete /\ [][NextAutocomplete]_vars


\* ---- properties of the autocomplete ----

\* the file the session opened
Opened == history[1]

\* the ids the enumeration can pair up in model m
Enumerated(m) == {ElementData(m, 1)[k].id : k \in DOMAIN ElementData(m, 1)}

\* the relationships of type rel_type from s to t in model m
Between(m, s, t, rel_type) ==
  {r \in AllElements(m) : /\ EndsWithRelationship(r)
                          /\ Short(r.type) = rel_type
                          /\ r.source = s /\ r.target = t}

NoRelationships(m) == \A e \in AllElements(m) : ~EndsWithRelationship(e)

\* C17: autocomplete is idempotent: once it has run on a file that holds a
\* Capability and a Goal with no relationship, the model holds exactly one
\* Realization from the Capability to the Goal, however many runs followed,
\* and every run after the first adds no element and no relationship.
C17_Idempotent ==
  /\ \A k \in DOMAIN runs :
       k >= 2 => /\ runs[k].added_elements_log = <<>>
                 /\ runs[k].added_relationships_log = <<>>
  /\ (/\ runs # <<>>
      /\ {"c1", "g1"} \subseteq Enumerated(Opened)
      /\ NoRelationships(Opened))
       => Cardinality(Between(model, "c1", "g1", "RealizationRelationship")) = 1

\* C18: the progress counter of a run never exceeds the total computed before
\* the enumeration, and a run that ended without a request to cancel ended
\* with the counter equal to that total.
C18_ProgressReachesTotal ==
  \A k \in DOMAIN runs :
    /\ runs[k].current_iteration <= runs[k].total_iterations
    /\ ~runs[k].cancel_asked => runs[k].current_iteration = runs[k].total_iterations

\* C19: a request to cancel is honoured between pair evaluations: a run that
\* was asked to stop before its first pair counts no pair, evaluates none and
\* ends without an error, leaving the model as it was.
C19_CancelHonoured ==
  \A k \in DOMAIN runs :
    runs[k].cancel_asked =>
      /\ runs[k].current_iteration = 0
      /\ ~runs[k].raised
      /\ model = Opened

\* C20: no rule is evaluated on or applied to a self-pair: the pair a run
\* hands to the evaluation of the conditions has two different elements.
C20_NoSelfPair ==
  \A k \in DOMAIN runs :
    runs[k].current_iteration > 0 => runs[k].source_data # runs[k].target_data


\* ---- properties of batch processing ----

\* C21: a failure on one relationship does not end the cleanup: no run is left
\* by an exception, and every relationship that reached rels_to_process is
\* examined by the repair step.
C21_PerItemFailureTolerated ==
  \A k \in DOMAIN runs :
    /\ ~runs[k].crashed
    /\ Range(runs[k].rels) \subseteq Range(runs[k].examined)


\* ---- files for the removal of elements ----

MaxElementRels == 1

\* the relationships of these files: Realizations kept in the Relations
\* folder or in Other
ElementRelOptions ==
  {o \in RelOptions : o.type = "RealizationRelationship" /\ o.place # "sub"}

\* e2 with or without the "archimate:" prefix on its type; e2 and e3 in their
\* layer folder or in Other; e4, an element without xsi:type, in Other or absent
ElementChoices ==
  [e2_place : {"home", "other"}, e2_prefixed : BOOLEAN,
   e3_place : {"home", "other"}, e4_place : {"absent", "other"}]

E4 == [id |-> "e4", type |-> NoType, source |-> NoneId, target |-> NoneId]

\* the tree that ET.parse returns for the file
ElementsFile(ch, rs) ==
  LET at(el, p, where) == IF p = where THEN <<el>> ELSE <<>>
      e2 == [E2 EXCEPT !.type = TypeString(ch.e2_prefixed, "BusinessProcess")]
      base == << [type |-> "strategy", name |-> "Strategy", elems |-> <<E1>>, sub |-> <<>>],
                 [type |-> "business", name |-> "Business",
                  elems |-> at(e2, ch.e2_place, "home") \o at(E3, ch.e3_place, "home"),
                  sub |-> <<>>],
                 [type |-> "other", name |-> "Other",
                  elems |-> at(e2, ch.e2_place, "other") \o at(E3, ch.e3_place, "other")
                            \o at(E4, ch.e4_place, "other") \o Placed(rs, "other", 1),
                  sub |-> <<>>] >>
      relations == [type |-> "relations", name |-> "Relations",
                    elems |-> Placed(rs, "relations", 1), sub |-> <<>>]
  IN IF relations.elems = <<>> THEN base ELSE Append(base, relations)

\* open_file
InitElements ==
  \E n \in 0..MaxElementRels : \E rs \in [1..n -> ElementRelOptions] :
  \E ch \in ElementChoices :
    /\ \A i \in 1..n : rs[i].source # RelIdOf[i]
    /\ model = ElementsFile(ch, rs)
    /\ history = <<ElementsFile(ch, rs)>>
    /\ element_db_by_id = build_element_database(ElementsFile(ch, rs))
    /\ runs = <<>>
    /\ rules_q = NoQuery
    /\ viewer = NoViewer

SpecElements == InitElements /\ [][Next]_vars

\* ---- properties of the removal of elements ----

\* the nodes of the tree that are not relationships
Plain(m) == AllElements(m) \ Relationships(m)

\* the direct element children of the folder named n ({} without such a folder)
ChildrenOf(m, n) ==
  IF FirstFolderNamed(m, n) = 0 THEN {} ELSE Range(m[FirstFolderNamed(m, n)].elems)

\* the ids the orphan, duplicate and repair steps removed
RemovedAsRelationship(run) ==
  Range(run.orphans_log) \cup Range(run.dups_log)
    \cup {run.unfixable_log[i].id : i \in DOMAIN run.unfixable_log}

\* C22: of the non-relationship elements a cleanup started with, one is
\* missing afterwards only if the tidy step deleted it from the Other folder
\* and its type is not in FOLDER_MAP; one whose type is in FOLDER_MAP is still
\* in the model, in the folder of its type when it was in Other; and the
\* orphan, duplicate and repair steps removed none.
C22_OnlyUnclassifiableRemoved ==
  runs # <<>> =>
    \A e \in Plain(Before) :
      /\ e \notin AllElements(model) =>
           /\ e.id \in Deleted(LastRun)
           /\ e \in ChildrenOf(Before, "Other")
           /\ Short(e.type) \notin DOMAIN FOLDER_MAP
      /\ Short(e.type) \in DOMAIN FOLDER_MAP =>
           /\ e \in AllElements(model)
           /\ e \in ChildrenOf(Before, "Other") =>
                e \in ChildrenOf(model, FOLDER_MAP[Short(e.type)])
      /\ e.id \notin RemovedAsRelationship(LastRun)

\* a cleanup that met a classifiable and an unclassifiable element in Other,
\* and removed a relationship in a later step
C22_Witness ==
  /\ runs # <<>>
  /\ {"e2", "e3", "e4"} \subseteq {e.id : e \in ChildrenOf(Before, "Other")}
  /\ E3 \notin AllElements(model)
  /\ RemovedAsRelationship(LastRun) # {}


\* ---- the valid set of the repair ----

\* the arguments of a call of _find_alternative_relationship
InitAlternatives ==
  \E s \in TypeNames, t \in TypeNames, prefixed \in BOOLEAN :
    /\ rules_q = [source_type |-> TypeString(prefixed, s),
                  target_type |-> TypeString(prefixed, t),
                  found |-> FALSE, valid_rels |-> {}]
    /\ model = <<>>
    /\ history = <<>>
    /\ element_db_by_id = <<>>
    /\ runs = <<>>
    /\ viewer = NoViewer

\* a call of _find_alternative_relationship
FindAlternative ==
  /\ ~rules_q.found
  /\ rules_q' = [rules_q EXCEPT !.found = TRUE, !.valid_rels =
                   _find_alternative_relationship(rules_q.source_type,
                                                  rules_q.target_type)]
  /\ UNCHANGED <<app_vars, viewer>>

NextAlternatives == FindAlternative

SpecAlternatives == InitAlternatives /\ [][NextAlternatives]_vars

\* C23: the set of relationship types that _find_alternative_relationship
\* returns for (S, T) is the set of the types R for which
\* is_relationship_allowed(S, T, R) holds.
C23_ValidSetIsAllowedSet ==
  rules_q.found =>
    rules_q.valid_rels =
      {R \in RELATIONSHIP_TYPES \cup rules_q.valid_rels :
         is_relationship_allowed(rules_q.source_type, rules_q.target_type, Archi(R))}


\* ---- properties of the retyping ----

\* C24: when the repair replaces the type of a relationship, in the same or
\* in the reversed direction, the new type is an entry of
\* RELATIONSHIP_FIX_PRIORITY that is allowed in that direction, and no entry
\* before it in the list is allowed in that direction.
C24_FirstOfPriority ==
  LET S == rules_q.source_type
      T == rules_q.target_type
      fix == rules_q.fix
      e == fix.entries[1]
      valid == IF e.action = "retyped" THEN ValidTypes(S, T) ELSE ValidTypes(T, S)
  IN (rules_q.repaired /\ fix.entries # <<>>
        /\ e.action \in {"retyped", "reversed_retyped"}) =>
       \E i \in DOMAIN RELATIONSHIP_FIX_PRIORITY :
         /\ fix.rel.type = Archi(RELATIONSHIP_FIX_PRIORITY[i])
         /\ RELATIONSHIP_FIX_PRIORITY[i] \in valid
         /\ \A j \in 1..(i - 1) : RELATIONSHIP_FIX_PRIORITY[j] \notin valid

\* a relationship whose type is allowed in neither direction was retyped,
\* between types for which more than one entry of the list is allowed
C24_Witness ==
  /\ rules_q.repaired
  /\ rules_q.fix.entries # <<>>
  /\ rules_q.fix.entries[1].action = "retyped"
  /\ rules_q.fix.rel.type # rules_q.relationship_type
  /\ Cardinality(ValidTypes(rules_q.source_type, rules_q.target_type)) > 1


\* ---- properties of the repair under the shipped table ----

C25_ValidatorLeavesGraph ==
  (/\ runs # <<>>
   /\ LastRun.other_log = <<>>
   /\ LastRun.fixed_log = <<>>
   /\ LastRun.unfixable_log = <<>>) => model = Before


\* ---- src/Viewer.py: the queue of run_impact_analysis, pass by pass ----

\* one pass of "while q:" without the "if depth >= max_steps: continue"
LoopPass_no_depth_limit(v, st) ==
  LET node_id == Head(st.q)[1]
      strength == Head(st.q)[2]
      depth == Get(st.visited_depth, node_id, 0)
      popped == [st EXCEPT !.q = Tail(@)]
  IN IF node_id \notin DOMAIN v.elements THEN [popped EXCEPT !.raised = TRUE]
     ELSE RelLoop(RelLoop(popped, OutOf(v, node_id), strength, depth, FALSE),
                  InTo(v, node_id), strength, depth, TRUE)

\* one pass of "while q:": q.popleft(), the test of the depth, the loop over
\* the outgoing relationships and the loop over the inbound ones
LoopPass(v, st) ==
  LET node_id == Head(st.q)[1]
      strength == Head(st.q)[2]
      depth == Get(st.visited_depth, node_id, 0)
      popped == [st EXCEPT !.q = Tail(@)]
  IN IF depth >= max_steps THEN popped
     ELSE IF node_id \notin DOMAIN v.elements THEN [popped EXCEPT !.raised = TRUE]
     ELSE RelLoop(RelLoop(popped, OutOf(v, node_id), strength, depth, FALSE),
                  InTo(v, node_id), strength, depth, TRUE)

\* link i of the file joins element i and element i+1: by one relationship,
\* or by one in each direction
LinkRels(i, link, type) ==
  IF link = "both" THEN <<ChainRel(i, TRUE, type), ChainRel(i, FALSE, type)>>
  ELSE <<ChainRel(i, TRUE, type)>>

RECURSIVE Links(_, _, _)
Links(links, type, i) ==
  IF i > Len(links) THEN <<>>
  ELSE LinkRels(i, links[i], type) \o Links(links, type, i + 1)

\* Archimate3DViewer.__init__: no file parsed. pc is the position in
\* run_impact_analysis, st its locals; hops holds, for each entry of st.q, the
\* number of relationships between a seed and the entry; dequeued and
\* expanded hold the hops of the entries that were taken from the queue and
\* of those whose pass wrote a score or queued an entry.
InitLoop ==
  /\ viewer = [elements |-> [x \in {} |-> NoType], relationships |-> <<>>,
               selection |-> {}, focused_node_id |-> NoneId,
               decay_var |-> [num |-> 6, den |-> 10], seed_order |-> <<>>,
               impact_scores |-> [x \in {} |-> [num |-> 0, den |-> 1]],
               analysed |-> FALSE, raised |-> FALSE,
               pc |-> "closed", st |-> Seeded(NoViewer, <<>>), hops |-> <<>>,
               dequeued |-> {}, expanded |-> {}]
  /\ model = <<>>
  /\ history = <<>>
  /\ element_db_by_id = <<>>
  /\ runs = <<>>
  /\ rules_q = NoQuery

\* load_file of a file whose relationships lead from the element n0 along a
\* chain, some of them doubled by a relationship back, and closed into a ring
\* by a relationship from the last element to n0 when closed; then the focus
\* is set to n0 and a decay is typed in
parse_archimate_file ==
  /\ viewer.pc = "closed"
  /\ \E n \in 0..MaxChain : \E links \in [1..n -> {"forward", "both"}] :
     \E closed \in BOOLEAN :
     \E type \in {Archi("InfluenceRelationship"),
                  TypeString(FALSE, "InfluenceRelationship")} :
     \E decay \in Decays :
       /\ closed => n >= 2
       /\ viewer' = [viewer EXCEPT
            !.elements = [x \in {ChainName[i] : i \in 1..(n + 1)} |-> Archi("Goal")],
            !.relationships =
               Links(links, type, 1)
                 \o (IF closed
                       THEN <<[source |-> ChainName[n + 1], target |-> "n0", type |-> type]>>
                       ELSE <<>>),
            !.focused_node_id = "n0",
            !.decay_var = decay,
            !.pc = "idle"]
  /\ UNCHANGED <<app_vars, rules_q>>

\* run_impact_analysis up to "while q:": the seeds are scored and queued
seed_queue ==
  /\ viewer.pc = "idle"
  /\ seed_nodes(viewer) # {}
  /\ \E order \in Orders(seed_nodes(viewer)) :
       viewer' = [viewer EXCEPT !.seed_order = order,
                                !.st = Seeded(viewer, order),
                                !.hops = [i \in DOMAIN order |-> 0],
                                !.pc = "loop"]
  /\ UNCHANGED <<app_vars, rules_q>>

\* one pass of "while q:"
while_q ==
  /\ viewer.pc = "loop"
  /\ viewer.st.q # <<>>
  /\ ~viewer.st.raised
  /\ \E next \in {LoopPass(viewer, viewer.st)} :
     LET st == viewer.st
         hop == Head(viewer.hops)
         grown == Len(next.q) - (Len(st.q) - 1)
     IN viewer' = [viewer EXCEPT
                     !.st = next,
                     !.hops = Tail(@) \o [i \in 1..grown |-> hop + 1],
                     !.dequeued = @ \cup {hop},
                     !.expanded = IF next.scores # st.scores \/ grown > 0
                                    THEN @ \cup {hop} ELSE @]
  /\ UNCHANGED <<app_vars, rules_q>>

\* run_impact_analysis after "while q:": the scores are normalised
normalise ==
  /\ viewer.pc = "loop"
  /\ viewer.st.q = <<>> \/ viewer.st.raised
  /\ viewer' = IF viewer.st.raised
                 THEN [viewer EXCEPT !.raised = TRUE, !.pc = "done"]
                 ELSE [viewer EXCEPT !.impact_scores = Normalised(viewer.st.scores),
                                     !.analysed = TRUE, !.pc = "done"]
  /\ UNCHANGED <<app_vars, rules_q>>

NextLoop == parse_archimate_file \/ seed_queue \/ while_q \/ normalise

\* the handler runs on the one thread of the interface and is not
\* interrupted: once the analysis is asked for, a step of it that can be
\* taken is taken; nothing obliges the user to open a file
SpecLoop ==
  InitLoop /\ [][NextLoop]_vars /\ WF_vars(seed_queue \/ while_q \/ normalise)

RULE_KEYS ==
  [Capability |-> <<"RealizationRelationship", "ServingRelationship",
        "CompositionRelationship", "AggregationRelationship", "InfluenceRelationship",
        "AssociationRelationship">>,
   CourseOfAction |-> <<"RealizationRelationship", "ServingRelationship",
        "CompositionRelationship", "AggregationRelationship", "AssociationRelationship">>,
   ValueStream |-> <<"CompositionRelationship", "AggregationRelationship",
        "RealizationRelationship", "AssociationRelationship">>,
   Resource |-> <<"RealizationRelationship", "CompositionRelationship",
        "AggregationRelationship", "AssociationRelationship">>,
   Stakeholder |-> <<"InfluenceRelationship", "AssignmentRelationship",
        "AssociationRelationship">>,
   Driver |-> <<"InfluenceRelationship", "AssociationRelationship">>,
   Assessment |-> <<"InfluenceRelationship", "AssociationRelationship">>,
   Goal |-> <<"RealizationRelationship", "InfluenceRelationship",
        "CompositionRelationship", "AggregationRelationship", "AssociationRelationship",
        "SpecializationRelationship">>,
   Outcome |-> <<"RealizationRelationship", "InfluenceRelationship",
        "AssociationRelationship">>,
   Principle |-> <<"InfluenceRelationship", "AssociationRelationship">>,
   Requirement |-> <<"RealizationRelationship", "InfluenceRelationship",
        "CompositionRelationship", "AggregationRelationship", "AssociationRelationship",
        "SpecializationRelationship">>,
   Constraint |-> <<"InfluenceRelationship", "AssociationRelationship">>,
   BusinessActor |-> <<"ServingRelationship", "UsedByRelationship",
        "CompositionRelationship", "AggregationRelationship", "AssignmentRelationship",
        "AssociationRelationship", "SpecializationRelationship">>,
   BusinessRole |-> <<"ServingRelationship", "UsedByRelationship",
        "CompositionRelationship", "AggregationRelationship", "AssignmentRelationship",
        "AssociationRelationship", "SpecializationRelationship">>,
   BusinessCollaboration |-> <<"ServingRelationship", "CompositionRelationship",
        "AggregationRelationship", "AssociationRelationship">>,
   BusinessInterface |-> <<"ServingRelationship", "AssignmentRelationship",
        "CompositionRelationship", "AssociationRelationship">>,
   BusinessProcess |-> <<"UsedByRelationship", "ServingRelationship",
        "AccessRelationship", "FlowRelationship", "TriggeringRelationship",
        "CompositionRelationship", "AggregationRelationship", "AssociationRelationship",
        "SpecializationRelationship">>,
   BusinessFunction |-> <<"UsedByRelationship", "ServingRelationship",
        "AccessRelationship", "FlowRelationship", "TriggeringRelationship",
        "CompositionRelationship", "AggregationRelationship", "AssociationRelationship",
        "SpecializationRelationship">>,
   BusinessInteraction |-> <<"FlowRelationship", "TriggeringRelationship",
        "AssociationRelationship">>,
   BusinessEvent |-> <<"TriggeringRelationship", "AssociationRelationship">>,
   BusinessService |-> <<"ServingRelationship", "RealizationRelationship",
        "AccessRelationship", "CompositionRelationship", "AggregationRelationship",
        "AssociationRelationship", "SpecializationRelationship">>,
   BusinessObject |-> <<"AccessRelationship", "RealizationRelationship",
        "CompositionRelationship", "AggregationRelationship", "AssociationRelationship">>,
   BusinessContract |-> <<"AccessRelationship", "AssociationRelationship">>,
   BusinessRepresentation |-> <<"AccessRelationship", "AssociationRelationship">>,
   ApplicationComponent |-> <<"RealizationRelationship", "UsedByRelationship",
        "ServingRelationship", "AccessRelationship", "FlowRelationship",
        "CompositionRelationship", "AggregationRelationship", "AssociationRelationship",
        "SpecializationRelationship">>,
   ApplicationCollaboration |-> <<"CompositionRelationship", "AggregationRelationship",
        "AssociationRelationship">>,
   ApplicationInterface |-> <<"ServingRelationship", "AssignmentRelationship",
        "CompositionRelationship", "AssociationRelationship",
        "SpecializationRelationship">>,
   ApplicationService |-> <<"ServingRelationship", "RealizationRelationship",
        "AccessRelationship", "CompositionRelationship", "AggregationRelationship",
        "AssociationRelationship", "SpecializationRelationship">>,
   ApplicationFunction |-> <<"UsedByRelationship", "AccessRelationship",
        "FlowRelationship", "TriggeringRelationship", "CompositionRelationship",
        "AggregationRelationship", "AssociationRelationship",
        "SpecializationRelationship">>,
   ApplicationProcess |-> <<"AccessRelationship", "FlowRelationship",
        "TriggeringRelationship", "CompositionRelationship", "AggregationRelationship",
        "AssociationRelationship">>,
   ApplicationInteraction |-> <<"FlowRelationship", "TriggeringRelationship",
        "AssociationRelationship">>,
   ApplicationEvent |-> <<"TriggeringRelationship", "AssociationRelationship">>,
   DataObject |-> <<"AccessRelationship", "RealizationRelationship",
        "CompositionRelationship", "AggregationRelationship", "AssociationRelationship">>,
   Node |-> <<"RealizationRelationship", "AssignmentRelationship",
        "CompositionRelationship", "AggregationRelationship", "AssociationRelationship">>,
   Device |-> <<"RealizationRelationship", "AssignmentRelationship",
        "CompositionRelationship", "AggregationRelationship", "AssociationRelationship">>,
   SystemSoftware |-> <<"RealizationRelationship", "AssignmentRelationship",
        "CompositionRelationship", "AggregationRelationship", "AssociationRelationship">>,
   TechnologyInterface |-> <<"ServingRelationship", "AssignmentRelationship",
        "CompositionRelationship", "AssociationRelationship">>,
   TechnologyService |-> <<"ServingRelationship", "RealizationRelationship",
        "CompositionRelationship", "AggregationRelationship", "AssociationRelationship",
        "SpecializationRelationship">>,
   Artifact |-> <<"AssignmentRelationship", "RealizationRelationship",
        "AssociationRelationship">>,
   WorkPackage |-> <<"RealizationRelationship", "CompositionRelationship",
        "AggregationRelationship", "AssociationRelationship">>,
   Deliverable |-> <<"RealizationRelationship", "CompositionRelationship",
        "AggregationRelationship", "AssociationRelationship">>,
   Plateau |-> <<"CompositionRelationship", "AggregationRelationship",
        "AssociationRelationship">>]
  @@ ("*" :> <<"AssociationRelationship", "SpecializationRelationship">>)

\* the characters of the strings that the cases below read
Spell ==
  [archimate |-> <<"a", "r", "c", "h", "i", "m", "a", "t", "e">>,
   BusinessProcess |-> <<"B", "u", "s", "i", "n", "e", "s", "s", "P", "r", "o", "c", "e", "s", "s">>,
   Requirement |-> <<"R", "e", "q", "u", "i", "r", "e", "m", "e", "n", "t">>,
   BusinessService |-> <<"B", "u", "s", "i", "n", "e", "s", "s", "S", "e", "r", "v", "i", "c", "e">>,
   Req |-> <<"R", "e", "q">>,
   Svc |-> <<"S", "v", "c">>]
  @@ ("" :> <<>>)

\* a xsi:type attribute as the string it is
TypeText(type) ==
  IF type.ns = "" THEN Spell[type.name] ELSE Spell[type.ns] \o <<":">> \o Spell[type.name]

\* f"{source_type}: {source_name}"
Described(type, name) == TypeText(type) \o <<":", " ">> \o Spell[name]

\* a in b, of two strings
Contains(a, b) == \E i \in 0..(Len(b) - Len(a)) : SubSeq(b, i + 1, i + Len(a)) = a

\* text.split(":")[0].strip(), as a key of the rules
SplitFirst(text) ==
  LET stop == First({i \in DOMAIN text : text[i] = ":"})
      head == IF stop = 0 THEN text ELSE SubSeq(text, 1, stop - 1)
  IN IF \E w \in DOMAIN Spell : Spell[w] = head
       THEN CHOOSE w \in DOMAIN Spell : Spell[w] = head
       ELSE "?"

\* bool(element): an Element without child nodes is false
Truthy(el) == el # NoneEl /\ el.children

RECURSIVE ValidateFrom(_, _, _)
ValidateFrom(m, i, k) ==
  IF i > Len(m) THEN <<>>
  ELSE IF k > Len(m[i].elems) THEN ValidateFrom(m, i + 1, 1)
  ELSE LET rel == m[i].elems[k]
           source_el == find_element_by_id(m, rel.source)
           target_el == find_element_by_id(m, rel.target)
           rest == ValidateFrom(m, i, k + 1)
       IN IF ~EndsWithRelationship(rel) THEN rest
          ELSE IF source_el = NoneEl \/ target_el = NoneEl THEN rest
          ELSE IF is_relationship_allowed(source_el.type, target_el.type, rel.type) THEN rest
          ELSE <<[relationship |-> rel.type,
                  source |-> Described(source_el.type, source_el.name),
                  target |-> Described(target_el.type, target_el.name)]>> \o rest

validate_all_relationships(m) == ValidateFrom(m, 1, 1)

\* None is ""
find_legal_alternative(source_type, target_type, original_rel_type) ==
  LET key == <<source_type, target_type, original_rel_type>>
      keys == IF source_type \in DOMAIN RULE_KEYS
                THEN RULE_KEYS[source_type] ELSE RULE_KEYS["*"]
      rules == IF source_type \in DOMAIN RELATIONSHIP_RULES
                 THEN RELATIONSHIP_RULES[source_type] ELSE RELATIONSHIP_RULES["*"]
      fits == {i \in DOMAIN keys : "*" \in rules[keys[i]] \/ target_type \in rules[keys[i]]}
  IN IF key = <<"Requirement", "BusinessService", TypeString(FALSE, "RealizationRelationship")>>
       THEN "InfluenceRelationship"
     ELSE IF key = <<"BusinessService", "ApplicationService", TypeString(FALSE, "RealizationRelationship")>>
       THEN "ServingRelationship"
     ELSE IF key = <<"ApplicationService", "TechnologyService", TypeString(FALSE, "RealizationRelationship")>>
       THEN "ServingRelationship"
     ELSE IF fits = {} THEN ""
     ELSE keys[First(fits)]

\* "for rel in folder.findall("element")" of fix_illegal_relationships, for
\* one illegal_rel and the folder at index i; todo is the list that findall
\* returned; c holds the model and fixed_count
RECURSIVE FixRels(_, _, _, _)
FixRels(c, illegal_rel, i, todo) ==
  IF todo = <<>> THEN c
  ELSE LET rel == Head(todo)
           source_type == SplitFirst(illegal_rel.source)
           target_type == SplitFirst(illegal_rel.target)
           source_el == find_element_by_id(c.m, rel.source)
           target_el == find_element_by_id(c.m, rel.target)
           alternative_rel == find_legal_alternative(source_type, target_type,
                                                     illegal_rel.relationship)
           done ==
             IF rel.type # illegal_rel.relationship THEN c
             ELSE IF ~(Truthy(source_el) /\ Contains(Spell[source_el.name], illegal_rel.source)
                       /\ Truthy(target_el) /\ Contains(Spell[target_el.name], illegal_rel.target))
               THEN c
             ELSE IF alternative_rel # ""
               THEN [m |-> SetRel(c.m, [rel EXCEPT !.type = Archi(alternative_rel)]),
                     fixed_count |-> c.fixed_count + 1]
             ELSE [m |-> RemoveFrom(c.m, i, rel.id), fixed_count |-> c.fixed_count + 1]
       IN CHOOSE out \in {FixRels(d, illegal_rel, i, Tail(todo)) : d \in {done}} : TRUE

\* "for folder in self.model.findall("folder")"
RECURSIVE FixFolders(_, _, _)
FixFolders(c, illegal_rel, i) ==
  IF i > Len(c.m) THEN c
  ELSE CHOOSE out \in {FixFolders(d, illegal_rel, i + 1) :
                         d \in {FixRels(c, illegal_rel, i, c.m[i].elems)}} : TRUE

\* "for illegal_rel in illegal_relationships"
RECURSIVE FixEntries(_, _)
FixEntries(c, todo) ==
  IF todo = <<>> THEN c
  ELSE CHOOSE out \in {FixEntries(d, Tail(todo)) :
                         d \in {FixFolders(c, Head(todo), 1)}} : TRUE

\* the model after the call and the pair that is returned
fix_illegal_relationships(m) ==
  LET illegal_relationships == validate_all_relationships(m)
      c == FixEntries([m |-> m, fixed_count |-> 0], illegal_relationships)
  IN [before |-> m, after |-> c.m, illegal_relationships |-> illegal_relationships,
      fixed_count |-> c.fixed_count, illegal_count |-> Len(illegal_relationships)]

MaxFixRels == 2

\* the elements of the files: two of them carry the same name
FixPool ==
  [q1 |-> [name |-> "Req", type |-> "Requirement", folder |-> "Motivation"],
   p1 |-> [name |-> "Req", type |-> "BusinessProcess", folder |-> "Business"],
   s1 |-> [name |-> "Svc", type |-> "BusinessService", folder |-> "Business"]]

FixRelOptions ==
  [type : {"RealizationRelationship", "ServingRelationship"},
   source : DOMAIN FixPool, target : {"p1", "s1"}]

\* the file: the elements of documented have a documentation child; prefixed:
\* the xsi:type attributes are written with "archimate:"
FixFile(documented, prefixed, rs) ==
  LET el(n) == [id |-> n, name |-> FixPool[n].name,
                type |-> TypeString(prefixed, FixPool[n].type),
                source |-> NoneId, target |-> NoneId, children |-> n \in documented]
      rel(k) == [id |-> RelIdOf[k], name |-> "", type |-> TypeString(prefixed, rs[k].type),
                 source |-> rs[k].source, target |-> rs[k].target, children |-> FALSE]
  IN << [type |-> "motivation", name |-> "Motivation", elems |-> <<el("q1")>>, sub |-> <<>>],
        [type |-> "business", name |-> "Business", elems |-> <<el("p1"), el("s1")>>,
         sub |-> <<>>],
        [type |-> "relations", name |-> "Relations",
         elems |-> [k \in DOMAIN rs |-> rel(k)], sub |-> <<>>] >>

\* open_file
InitFix ==
  \E documented \in SUBSET DOMAIN FixPool : \E prefixed \in BOOLEAN :
  \E n \in 0..MaxFixRels : \E rs \in [1..n -> FixRelOptions] :
    /\ model = FixFile(documented, prefixed, rs)
    /\ history = <<model>>
    /\ element_db_by_id = build_element_database(model)
    /\ runs = <<>>
    /\ rules_q = NoQuery
    /\ viewer = NoViewer

\* the Fix button of the report of the illegal relationships
fix_and_refresh ==
  /\ Len(runs) < MaxRuns
  /\ \E run \in {fix_illegal_relationships(model)} :
       /\ model' = run.after
       /\ runs' = Append(runs, run)
  /\ UNCHANGED <<history, element_db_by_id, rules_q, viewer>>

NextFix == fix_and_refresh

SpecFix == InitFix /\ [][NextFix]_vars

\* the relationships of m with both ends in m that the rules allow
AllowedIn(m) ==
  {r \in Relationships(m) : EndpointsExist(m, r)
      /\ is_relationship_allowed(TypeOf(m, r.source), TypeOf(m, r.target), r.type)}

\* C28: a call of fix_illegal_relationships leaves every relationship that
\* the rules allowed before it with its type, its source and its target, and
\* the count of fixed relationships it returns is at most the count of
\* illegal ones.
C28_OnlyIllegalTouched ==
  \A k \in DOMAIN runs :
    /\ AllowedIn(runs[k].before) \subseteq AllElements(runs[k].after)
    /\ runs[k].fixed_count <= runs[k].illegal_count

\* an allowed Realization from the Requirement "Req" is retyped with the
\* illegal one from the BusinessProcess "Req", and 2 of 1 are counted
C28_Counterexample ==
  /\ Len(runs) = 1
  /\ runs[1].illegal_count = 1
  /\ runs[1].fixed_count = 2
  /\ \E r \in AllowedIn(runs[1].before) : r.id = "r1" /\ r.source = "q1" /\ r.target = "s1"
        /\ r \notin AllElements(runs[1].after)

\* ---- src/config.py: what the autocomplete rules create ----

\* the "create_relationships" of a rule for a source of type source_type and a
\* target of type target_type: "source", "target" and "intermediary" stand
\* for the two elements of the pair and for the element of "create_element"
create_relationships(rule, source_type, target_type) ==
  LET type_of(end) == IF end = "source" THEN source_type
                      ELSE IF end = "target" THEN target_type
                      ELSE rule.create_element
  IN [k \in DOMAIN rule.create_relationships |->
        [type |-> rule.create_relationships[k].type,
         source_type |-> type_of(rule.create_relationships[k].source),
         target_type |-> type_of(rule.create_relationships[k].target)]]

InitCreated ==
  /\ model = <<>>
  /\ history = <<>>
  /\ element_db_by_id = <<>>
  /\ runs = <<>>
  /\ rules_q = NoQuery
  /\ viewer = NoViewer

\* a rule meets a pair of elements of its source and target types
ApplyRule ==
  /\ Len(runs) < MaxRuns
  /\ \E i \in DOMAIN AUTOCOMPLETE_RULES :
     \E s \in Range(AUTOCOMPLETE_RULES[i].source_types) :
     \E t \in Range(AUTOCOMPLETE_RULES[i].target_types) :
       runs' = Append(runs, [rule |-> i, source_type |-> s, target_type |-> t,
                             created |-> create_relationships(AUTOCOMPLETE_RULES[i], s, t)])
  /\ UNCHANGED <<model, history, element_db_by_id, rules_q, viewer>>

NextCreated == ApplyRule

SpecCreated == InitCreated /\ [][NextCreated]_vars

\* C29: every relationship that a rule of AUTOCOMPLETE_RULES creates, between
\* the pair or to and from the intermediary, is allowed by RELATIONSHIP_RULES
\* for the types of its source and its target.
C29_CreatedAllowed ==
  \A k \in DOMAIN runs : \A rel \in Range(runs[k].created) :
    is_relationship_allowed(Archi(rel.source_type), Archi(rel.target_type), Archi(rel.type))

\* the second rule creates a Realization from a BusinessService to a
\* Requirement, which the entry of BusinessService does not allow
C29_Counterexample ==
  /\ Len(runs) = 1
  /\ runs[1].rule = 2
  /\ runs[1].created = <<[type |-> "RealizationRelationship",
                          source_type |-> "BusinessService",
                          target_type |-> "Requirement"]>>
  /\ ~is_relationship_allowed(Archi("BusinessService"), Archi("Requirement"),
                              Archi("RealizationRelationship"))

\* ---- src/8.3.py: insert from the paste area, and undo ----

DEFAULT_FOLDERS ==
  << <<"Strategy", "strategy">>, <<"Business", "business">>,
     <<"Application", "application">>, <<"Technology & Physical", "technology">>,
     <<"Motivation", "motivation">>,
     <<"Implementation & Migration", "implementation_migration">>,
     <<"Other", "other">>, <<"Relations", "relations">>, <<"Views", "diagrams">> >>

RECURSIVE DefaultFoldersFrom(_, _)
DefaultFoldersFrom(m, k) ==
  IF k > Len(DEFAULT_FOLDERS) THEN m
  ELSE IF FirstFolderOfType(m, DEFAULT_FOLDERS[k][2]) # 0 THEN DefaultFoldersFrom(m, k + 1)
  ELSE DefaultFoldersFrom(create_folder(m, DEFAULT_FOLDERS[k][1], DEFAULT_FOLDERS[k][2]), k + 1)

create_default_folders(m) == DefaultFoldersFrom(m, 1)

remove_relationships_from_other(m) ==
  [i \in DOMAIN m |->
     IF m[i].type = "other"
       THEN [m[i] EXCEPT !.elems = SelectSeq(@, LAMBDA el : ~EndsWithRelationship(el))]
       ELSE m[i]]

\* the names of the elements of the files and of the paste areas, by id; n1
\* and n2 are the ids that generate_id() hands out to the element and to the
\* relationship of a paste area
NameOf ==
  [g1 |-> "Growth", p1 |-> "Billing", r1 |-> "", n1 |-> "Churn", n2 |-> "", x9 |-> ""]

\* name.lower()
LowerName(n) ==
  CASE n = "Growth" -> "growth"
    [] n = "Billing" -> "billing"
    [] n = "Churn" -> "churn"
    [] OTHER -> n

\* self.element_db after build_element_database left by_id: name -> id, under
\* the name and under the name in lower case
element_db(by_id) ==
  LET named == {i \in DOMAIN by_id : NameOf[i] # ""}
      keys == {NameOf[i] : i \in named} \cup {LowerName(NameOf[i]) : i \in named}
  IN [k \in keys |-> CHOOSE i \in named : NameOf[i] = k \/ LowerName(NameOf[i]) = k]

\* the paste areas: each line is its parts [raw type, name] and the value of
\* its target= part ("" when it has none)
Pastes ==
  { <<>>,
    << [raw_type |-> "Goal", name |-> "growth", target |-> ""] >>,
    << [raw_type |-> "Goal", name |-> "Churn", target |-> ""],
       [raw_type |-> "RealizationRelationship", name |-> "Billing", target |-> "Churn"] >> }

\* first pass of insert_from_paste; c holds the model, element_db, the
\* relationships_to_create and created_elements
RECURSIVE FirstPass(_, _)
FirstPass(c, lines) ==
  IF lines = <<>> THEN c
  ELSE LET ln == Head(lines)
           new_el_id == "n1"
           m == FolderForTypeIn(c.m, ln.raw_type)
           folder == get_folder_for_type(c.m, ln.raw_type)
           new_el == [id |-> new_el_id, name |-> ln.name, type |-> Archi(ln.raw_type),
                      source |-> NoneId, target |-> NoneId]
           done ==
             IF ln.raw_type \in RELATIONSHIP_TYPES
               THEN [c EXCEPT !.relationships_to_create =
                       Append(@, [type |-> ln.raw_type, source_name |-> ln.name,
                                  target_name |-> ln.target])]
             ELSE IF ln.name \in DOMAIN c.element_db THEN c
             ELSE [c EXCEPT !.m = [m EXCEPT ![folder].elems = Append(@, new_el)],
                            !.element_db = (ln.name :> new_el_id)
                                             @@ (LowerName(ln.name) :> new_el_id) @@ @,
                            !.created_elements = Append(@, new_el_id)]
       IN FirstPass(done, Tail(lines))

\* second pass of insert_from_paste
RECURSIVE SecondPass(_, _)
SecondPass(c, todo) ==
  IF todo = <<>> THEN c
  ELSE LET rel == Head(todo)
           lookup(n) == IF n \in DOMAIN c.element_db THEN c.element_db[n]
                        ELSE IF LowerName(n) \in DOMAIN c.element_db
                          THEN c.element_db[LowerName(n)]
                        ELSE NoneId
           src_id == lookup(rel.source_name)
           tgt_id == IF rel.target_name = "" THEN NoneId ELSE lookup(rel.target_name)
           rel_folder == FirstFolderOfType(c.m, "relations")
           rel_el == [id |-> "n2", name |-> "", type |-> Archi(rel.type),
                      source |-> src_id, target |-> tgt_id]
           done == IF src_id = NoneId \/ tgt_id = NoneId THEN c
                   ELSE [c EXCEPT !.m[rel_folder].elems = Append(@, rel_el)]
       IN SecondPass(done, Tail(todo))

\* the model that insert_from_paste leaves for a paste area that is not empty
insert_from_paste(m, by_id, lines) ==
  LET first == FirstPass([m |-> create_default_folders(m), element_db |-> element_db(by_id),
                          relationships_to_create |-> <<>>, created_elements |-> <<>>],
                         lines)
      second == SecondPass([first EXCEPT !.m = RelationsFolderIn(@)],
                           first.relationships_to_create)
  IN remove_relationships_from_other(second.m)

\* the last snapshot becomes the model and leaves the history; taking the
\* first instead
Undone_first_snapshot(h, m) ==
  IF h = <<>> THEN [model |-> m, history |-> h]
  ELSE [model |-> h[1], history |-> Tail(h)]

\* undo: snapshot = self.history.pop(); self.model = snapshot
Undone(h, m) ==
  IF h = <<>> THEN [model |-> m, history |-> h]
  ELSE [model |-> h[Len(h)], history |-> SubSeq(h, 1, Len(h) - 1)]

MaxOps == 3

UndoRelOptions ==
  [type : {"RealizationRelationship"}, source : {"g1", "p1", "x9"},
   target : {"g1", "p1"}, place : {"relations", "other"}]

\* the file: a Goal and a BusinessProcess in their folders, and the
\* relationships of rs in the Relations folder or in the Other folder
UndoFile(rs) ==
  LET rel(k) == [id |-> RelIdOf[k], name |-> "", type |-> Archi(rs[k].type),
                 source |-> rs[k].source, target |-> rs[k].target]
      placed(place) == SelectSeq([k \in DOMAIN rs |-> k], LAMBDA k : rs[k].place = place)
      at(place) == [j \in DOMAIN placed(place) |-> rel(placed(place)[j])]
  IN << [type |-> "motivation", name |-> "Motivation", elems |-> <<El("g1")>>, sub |-> <<>>],
        [type |-> "business", name |-> "Business", elems |-> <<El("p1")>>, sub |-> <<>>],
        [type |-> "other", name |-> "Other", elems |-> at("other"), sub |-> <<>>],
        [type |-> "relations", name |-> "Relations", elems |-> at("relations"),
         sub |-> <<>>] >>

\* open_file: self.history.clear(); self.save_history()
InitUndo ==
  \E rs \in {<<>>} \cup {<<o>> : o \in UndoRelOptions} :
    /\ model = UndoFile(rs)
    /\ history = save_history(<<>>, UndoFile(rs))
    /\ element_db_by_id = build_element_database(UndoFile(rs))
    /\ runs = <<>>
    /\ rules_q = NoQuery
    /\ viewer = NoViewer

\* what runs keeps of a click: the button, the model before and after it,
\* the length of the history before and after it, and whether the handler
\* came as far as its save_history()
Click(op, saved) ==
  [op |-> op, before |-> model, after |-> model', saved |-> saved,
   snapshots_before |-> Len(history), snapshots_after |-> Len(history')]

\* the Clean button
clean_button ==
  /\ Len(runs) < MaxOps
  /\ \E c \in {CleanRun(model)} :
       /\ model' = c.m
       /\ history' = save_history(history, model)
       /\ element_db_by_id' = IF c.crashed THEN element_db_by_id
                              ELSE build_element_database(c.m)
  /\ runs' = Append(runs, Click("validate_and_clean_relationships", TRUE))
  /\ UNCHANGED <<rules_q, viewer>>

\* the Autocomplete button
autocomplete_button ==
  /\ Len(runs) < MaxOps
  /\ \E run \in {AutocompleteRun(model, FALSE)} :
       /\ model' = model
       /\ history' = save_history(history, model)
       /\ element_db_by_id' = IF run.raised \/ run.total_iterations = 0
                                THEN element_db_by_id
                                ELSE build_element_database(model)
  /\ runs' = Append(runs, Click("autocomplete_model_conservative", TRUE))
  /\ UNCHANGED <<rules_q, viewer>>

\* the Insert button, over a paste area; generate_id() never repeats an id
\* that the model holds
insert_button ==
  /\ Len(runs) < MaxOps
  /\ \E lines \in Pastes :
       IF lines = <<>>
         THEN /\ UNCHANGED <<model, history, element_db_by_id>>
              /\ runs' = Append(runs, Click("insert_from_paste", FALSE))
         ELSE /\ ~(\E el \in AllElements(model) : el.id \in {"n1", "n2"})
              /\ model' = insert_from_paste(model, element_db_by_id, lines)
              /\ history' = save_history(history, model)
              /\ element_db_by_id' = build_element_database(model')
              /\ runs' = Append(runs, Click("insert_from_paste", TRUE))
  /\ UNCHANGED <<rules_q, viewer>>

\* the Undo button
undo_button ==
  /\ Len(runs) < MaxOps
  /\ \E u \in {Undone(history, model)} :
       /\ model' = u.model
       /\ history' = u.history
       /\ element_db_by_id' = IF history = <<>> THEN element_db_by_id
                              ELSE build_element_database(u.model)
  /\ runs' = Append(runs, Click("undo", FALSE))
  /\ UNCHANGED <<rules_q, viewer>>

NextUndo == clean_button \/ autocomplete_button \/ insert_button \/ undo_button

SpecUndo == InitUndo /\ [][NextUndo]_vars

\* C30: an undo that follows at once on an insert_from_paste, an
\* autocomplete_model_conservative or a validate_and_clean_relationships that
\* took its snapshot leaves the model as it was just before that operation;
\* every undo takes exactly one snapshot from the history, and with no
\* history it changes nothing.
C30_UndoInverts ==
  \A k \in DOMAIN runs :
    runs[k].op = "undo" =>
      /\ k > 1 /\ runs[k - 1].saved => runs[k].after = runs[k - 1].before
      /\ runs[k].snapshots_before > 0 =>
           runs[k].snapshots_after = runs[k].snapshots_before - 1
      /\ runs[k].snapshots_before = 0 =>
           runs[k].after = runs[k].before /\ runs[k].snapshots_after = 0

\* an insert that added an element and a relationship, then a cleanup that
\* changed the model, then an undo that took the cleanup back
C30_Witness ==
  /\ Len(runs) = 3
  /\ runs[1].op = "insert_from_paste" /\ runs[1].after # runs[1].before
  /\ runs[2].op = "validate_and_clean_relationships" /\ runs[2].after # runs[2].before
  /\ runs[3].op = "undo" /\ model = runs[2].before /\ model # runs[1].before
  /\ Len(history) = 2

====
